---- MODULE Spec2Model ----
(***************************************************************************)
(* Water/steam property regions of dzen/0009/wsprops: the shared Region    *)
(* scaffolding (region.py) and its two variants Region1 (liquid,           *)
(* region1.py) and Region2 (vapor, region2.py), with the saturation curve  *)
(* of dzen/0003.                                                           *)
(*                                                                         *)
(* Quantities are fixed-point integers:                                    *)
(*   T in mK, p in Pa, h and u in J/kg, s, cv and cp in mJ/kg/K,           *)
(*   v in 1e-9 m3/kg, w in mm/s; the phase tag x is the number the code    *)
(*   stores.                                                               *)
(* The correlations are sums of real powers with up to 46 terms, which     *)
(* integer arithmetic cannot evaluate; each is tabulated on the grid of    *)
(* inputs the calls draw from, the entries being the values the source     *)
(* computes there, rounded to the unit.  Two grid pressures stand for      *)
(* floats that are no whole number of Pa: 16529164 for sc.p_T(623.15) =    *)
(* 16529164.2526 and 19979439 for __p2b2c_h(3000000) = 19979438.8822; the  *)
(* tables hold the values at those floats.  A table covers the points a    *)
(* call can evaluate and whose results fit the units.                      *)
(***************************************************************************)
EXTENDS Integers, Sequences, FiniteSets, TLC

VARIABLES
    self,       \* the class of the region instance: "Region1" or "Region2"
    props,      \* self.props, the instance's dict: field name -> value
    last,       \* the call that ended last: [op, a, b, X]
    ret,        \* what it returned: [kind, val]
    sub,        \* the backward correlation Region2.T_ph / T_ps took in it
    collab,     \* the collaborator calls it made: <<name, p>>
    pc,         \* per thread: the statement of props_Tp/ph/ps it is at
    call,       \* per thread: the call it runs, with its local T
    tret,       \* per thread: the record its call returned
    frames,     \* the Python call stack of a hydrcalc call: <<[fn, a, D, deg]>>
    valve,      \* the fields of the ControlValve instance
    hx,         \* the fields of the HeatExchanger instance and its solve
    held        \* the record a caller of the region kept: [obj, val]

vars == <<self, props, last, ret, sub, collab, pc, call, tret, frames, valve, hx, held>>

seqvars == <<last, ret, sub, collab>>
concvars == <<pc, call, tret>>
objvars == <<frames, valve, hx, held>>

-----------------------------------------------------------------------------
\* Bounds of the model

\* How many pressures of PGrid the calls draw from
NP == 4
\* How many threads evaluate concurrently on the one instance
NThreads == 2

-----------------------------------------------------------------------------
\* Tabulated correlations

\* Region1._props_Tp: <<T, p>> -> v, u, s, h, cv, cp, w
Gibbs1Tab ==
       (<<273150, 1000000>> :> [v |-> 999699, u |-> -24, s |-> -88, h |-> 976, cv |-> 4212739, cp |-> 4214961, w |-> 1403847])
    @@ (<<273150, 4000000>> :> [v |-> 998184, u |-> 28, s |-> 87, h |-> 4021, cv |-> 4198797, cp |-> 4200319, w |-> 1408575])
    @@ (<<273150, 16529164>> :> [v |-> 992018, u |-> 194, s |-> 465, h |-> 16591, cv |-> 4143526, cp |-> 4143563, w |-> 1428790])
    @@ (<<273150, 19979439>> :> [v |-> 990365, u |-> 227, s |-> 473, h |-> 20013, cv |-> 4129110, cp |-> 4129117, w |-> 1434483])
    @@ (<<273150, 20000000>> :> [v |-> 990355, u |-> 227, s |-> 473, h |-> 20034, cv |-> 4129025, cp |-> 4129032, w |-> 1434517])
    @@ (<<273150, 110000000>> :> [v |-> 953023, u |-> -477, s |-> -10702, h |-> 104356, cv |-> 3852748, cp |-> 3889586, w |-> 1593280])
    @@ (<<296461, 20000000>> :> [v |-> 993745, u |-> 96363, s |-> 338451, h |-> 116238, cv |-> 4080322, cp |-> 4128093, w |-> 1525309])
    @@ (<<296466, 19979439>> :> [v |-> 993755, u |-> 96385, s |-> 338526, h |-> 116240, cv |-> 4080369, cp |-> 4128146, w |-> 1525290])
    @@ (<<297234, 16529164>> :> [v |-> 995446, u |-> 99799, s |-> 350131, h |-> 116253, cv |-> 4088480, cp |-> 4137122, w |-> 1521900])
    @@ (<<299939, 1000000>> :> [v |-> 1003032, u |-> 112234, s |-> 391999, h |-> 113237, cv |-> 4127976, cp |-> 4178595, w |-> 1504398])
    @@ (<<299999, 4000000>> :> [v |-> 1001705, u |-> 112239, s |-> 392002, h |-> 116246, cv |-> 4117970, cp |-> 4170263, w |-> 1509330])
    @@ (<<300000, 1000000>> :> [v |-> 1003049, u |-> 112489, s |-> 392849, h |-> 113492, cv |-> 4127728, cp |-> 4178572, w |-> 1504558])
    @@ (<<300000, 4000000>> :> [v |-> 1001705, u |-> 112243, s |-> 392016, h |-> 116250, cv |-> 4117966, cp |-> 4170262, w |-> 1509333])
    @@ (<<300000, 16529164>> :> [v |-> 996215, u |-> 111230, s |-> 388454, h |-> 127697, cv |-> 4078948, cp |-> 4137460, w |-> 1529442])
    @@ (<<300000, 19979439>> :> [v |-> 994738, u |-> 110956, s |-> 387449, h |-> 130830, cv |-> 4068677, cp |-> 4128940, w |-> 1535028])
    @@ (<<300000, 20000000>> :> [v |-> 994729, u |-> 110954, s |-> 387443, h |-> 130849, cv |-> 4068616, cp |-> 4128890, w |-> 1535061])
    @@ (<<300016, 4000000>> :> [v |-> 1001709, u |-> 112310, s |-> 392239, h |-> 116316, cv |-> 4117903, cp |-> 4170258, w |-> 1509374])
    @@ (<<300255, 16529164>> :> [v |-> 996290, u |-> 112284, s |-> 391969, h |-> 128752, cv |-> 4078044, cp |-> 4137495, w |-> 1530109])
    @@ (<<300328, 19979439>> :> [v |-> 994834, u |-> 112308, s |-> 391961, h |-> 132184, cv |-> 4067548, cp |-> 4129018, w |-> 1535885])
    @@ (<<300329, 20000000>> :> [v |-> 994826, u |-> 112311, s |-> 391969, h |-> 132207, cv |-> 4067484, cp |-> 4128968, w |-> 1535921])
    @@ (<<300681, 1000000>> :> [v |-> 1003239, u |-> 115335, s |-> 402323, h |-> 116338, cv |-> 4124941, cp |-> 4178332, w |-> 1506318])
    @@ (<<373150, 1000000>> :> [v |-> 1042998, u |-> 418731, s |-> 1306311, h |-> 419774, cv |-> 3766384, cp |-> 4214577, w |-> 1546931])
    @@ (<<373150, 4000000>> :> [v |-> 1041480, u |-> 417864, s |-> 1303976, h |-> 422029, cv |-> 3762008, cp |-> 4207755, w |-> 1553042])
    @@ (<<373150, 16529164>> :> [v |-> 1035321, u |-> 414363, s |-> 1294426, h |-> 431476, cv |-> 3744030, cp |-> 4180554, w |-> 1578162])
    @@ (<<373150, 19979439>> :> [v |-> 1033673, u |-> 413432, s |-> 1291850, h |-> 434084, cv |-> 3739161, cp |-> 4173407, w |-> 1584986])
    @@ (<<373150, 20000000>> :> [v |-> 1033663, u |-> 413426, s |-> 1291835, h |-> 434100, cv |-> 3739132, cp |-> 4173365, w |-> 1585026])
    @@ (<<423150, 1000000>> :> [v |-> 1090151, u |-> 631485, s |-> 1841366, h |-> 632575, cv |-> 3525960, cp |-> 4308571, w |-> 1467405])
    @@ (<<423150, 4000000>> :> [v |-> 1088144, u |-> 630081, s |-> 1838037, h |-> 634433, cv |-> 3523206, cp |-> 4298991, w |-> 1475470])
    @@ (<<423150, 16529164>> :> [v |-> 1080092, u |-> 624458, s |-> 1824555, h |-> 642311, cv |-> 3511969, cp |-> 4261529, w |-> 1507823])
    @@ (<<423150, 19979439>> :> [v |-> 1077962, u |-> 622974, s |-> 1820955, h |-> 644511, cv |-> 3508933, cp |-> 4251867, w |-> 1516412])
    @@ (<<423150, 20000000>> :> [v |-> 1077949, u |-> 622965, s |-> 1820933, h |-> 644524, cv |-> 3508915, cp |-> 4251810, w |-> 1516463])
    @@ (<<453036, 1000000>> :> [v |-> 1127234, u |-> 761557, s |-> 2138435, h |-> 762684, cv |-> 3396747, cp |-> 4405114, w |-> 1391638])
    @@ (<<473150, 4000000>> :> [v |-> 1154040, u |-> 848771, s |-> 2326932, h |-> 853387, cv |-> 3315149, cp |-> 4479888, w |-> 1340634])
    @@ (<<473150, 16529164>> :> [v |-> 1142099, u |-> 839927, s |-> 2307983, h |-> 858805, cv |-> 3306494, cp |-> 4414509, w |-> 1384706])
    @@ (<<473150, 19979439>> :> [v |-> 1139004, u |-> 837625, s |-> 2302998, h |-> 860382, cv |-> 3304326, cp |-> 4398277, w |-> 1396101])
    @@ (<<473150, 20000000>> :> [v |-> 1138986, u |-> 837611, s |-> 2302969, h |-> 860391, cv |-> 3304314, cp |-> 4398183, w |-> 1396168])
    @@ (<<523150, 4000000>> :> [v |-> 1251693, u |-> 1080679, s |-> 2793329, h |-> 1085686, cv |-> 3151283, cp |-> 4864647, w |-> 1148502])
    @@ (<<523150, 16529164>> :> [v |-> 1230620, u |-> 1065839, s |-> 2764555, h |-> 1086180, cv |-> 3141684, cp |-> 4716585, w |-> 1212022])
    @@ (<<523150, 19979439>> :> [v |-> 1225389, u |-> 1062098, s |-> 2757222, h |-> 1086581, cv |-> 3139485, cp |-> 4682596, w |-> 1228044])
    @@ (<<523150, 20000000>> :> [v |-> 1225359, u |-> 1062076, s |-> 2757179, h |-> 1086584, cv |-> 3139473, cp |-> 4682401, w |-> 1228137])
    @@ (<<523508, 4000000>> :> [v |-> 1252572, u |-> 1082418, s |-> 2796658, h |-> 1087428, cv |-> 3150312, cp |-> 4868794, w |-> 1146885])
    @@ (<<544160, 1000000>> :> [v |-> 1318081, u |-> 1190875, s |-> 3000090, h |-> 1192193, cv |-> 3104163, cp |-> 5245001, w |-> 1024733])
    @@ (<<545173, 4000000>> :> [v |-> 1313187, u |-> 1190850, s |-> 3000022, h |-> 1196103, cv |-> 3098711, cp |-> 5189209, w |-> 1040197])
    @@ (<<545626, 1000000>> :> [v |-> 1322996, u |-> 1198581, s |-> 3014243, h |-> 1199904, cv |-> 3101286, cp |-> 5275933, w |-> 1016445])
    @@ (<<545907, 4000000>> :> [v |-> 1315547, u |-> 1194654, s |-> 3007013, h |-> 1199917, cv |-> 3097251, cp |-> 5203186, w |-> 1036222])
    @@ (<<546696, 16529164>> :> [v |-> 1287663, u |-> 1178674, s |-> 2977248, h |-> 1199958, cv |-> 3083003, cp |-> 4964567, w |-> 1111473])
    @@ (<<546822, 19979439>> :> [v |-> 1280743, u |-> 1174381, s |-> 2969166, h |-> 1199969, cv |-> 3079925, cp |-> 4912203, w |-> 1130384])
    @@ (<<546822, 20000000>> :> [v |-> 1280701, u |-> 1174352, s |-> 2969112, h |-> 1199966, cv |-> 3079909, cp |-> 4911897, w |-> 1130497])
    @@ (<<549198, 16529164>> :> [v |-> 1294582, u |-> 1191022, s |-> 2999992, h |-> 1212420, cv |-> 3077633, cp |-> 4997669, w |-> 1099912])
    @@ (<<550253, 19979439>> :> [v |-> 1289894, u |-> 1191122, s |-> 3000020, h |-> 1216894, cv |-> 3072462, cp |-> 4953845, w |-> 1115104])
    @@ (<<550259, 20000000>> :> [v |-> 1289866, u |-> 1191122, s |-> 3000018, h |-> 1216919, cv |-> 3072432, cp |-> 4953591, w |-> 1115194])
    @@ (<<600000, 16529164>> :> [v |-> 1504754, u |-> 1468823, s |-> 3488954, h |-> 1493695, cv |-> 3027730, cp |-> 6422600, w |-> 805885])
    @@ (<<600000, 19979439>> :> [v |-> 1481351, u |-> 1456710, s |-> 3468056, h |-> 1486306, cv |-> 3012537, cp |-> 6124074, w |-> 845699])
    @@ (<<600000, 20000000>> :> [v |-> 1481222, u |-> 1456642, s |-> 3467939, h |-> 1486267, cv |-> 3012446, cp |-> 6122544, w |-> 845926])
    @@ (<<623150, 16529164>> :> [v |-> 1740071, u |-> 1642096, s |-> 3778281, h |-> 1670858, cv |-> 3151309, cp |-> 10101977, w |-> 576915])
    @@ (<<623150, 19979439>> :> [v |-> 1665210, u |-> 1612796, s |-> 3729088, h |-> 1646066, cv |-> 3051122, cp |-> 8113254, w |-> 664558])
    @@ (<<623150, 20000000>> :> [v |-> 1664867, u |-> 1612654, s |-> 3728849, h |-> 1645951, cv |-> 3050806, cp |-> 8106184, w |-> 664964])
    @@ (<<623150, 110000000>> :> [v |-> 1294617, u |-> 1411131, s |-> 3376257, h |-> 1553539, cv |-> 2883520, cp |-> 4527156, w |-> 1270028])
    @@ (<<638810, 19979439>> :> [v |-> 2008428, u |-> 1780005, s |-> 4004529, h |-> 1820132, cv |-> 3153823, cp |-> 17773138, w |-> 501374])
    @@ (<<638896, 20000000>> :> [v |-> 2010486, u |-> 1780896, s |-> 4005989, h |-> 1821106, cv |-> 3152853, cp |-> 17843412, w |-> 501307])

\* Region2._props_Tp: <<T, p>> -> v, u, s, h, cv, cp, w
Gibbs2Tab ==
       (<<453036, 1000000>> :> [v |-> 194349107, u |-> 2582771, s |-> 6584981, h |-> 2777121, cv |-> 1930332, cp |-> 2714975, w |-> 500894])
    @@ (<<503358, 4000000>> :> [v |-> 44328696, u |-> 2513760, s |-> 5855270, h |-> 2691075, cv |-> 4445864, cp |-> 8453092, w |-> 458854])
    @@ (<<505515, 4000000>> :> [v |-> 45094814, u |-> 2527649, s |-> 5888879, h |-> 2708028, cv |-> 3996914, cp |-> 7323392, w |-> 465291])
    @@ (<<521057, 4000000>> :> [v |-> 49233494, u |-> 2593895, s |-> 6050431, h |-> 2790829, cv |-> 2555760, cp |-> 4201657, w |-> 498018])
    @@ (<<521058, 4000000>> :> [v |-> 49233719, u |-> 2593898, s |-> 6050439, h |-> 2790833, cv |-> 2555721, cp |-> 4201576, w |-> 498020])
    @@ (<<523508, 4000000>> :> [v |-> 49776706, u |-> 2601792, s |-> 6069713, h |-> 2800899, cv |-> 2468363, cp |-> 4021715, w |-> 501643])
    @@ (<<547700, 1000000>> :> [v |-> 245254511, u |-> 2751666, s |-> 7026939, h |-> 2996920, cv |-> 1616378, cp |-> 2166971, w |-> 564455])
    @@ (<<549119, 1000000>> :> [v |-> 245969885, u |-> 2754024, s |-> 7032544, h |-> 2999994, cv |-> 1615641, cp |-> 2165060, w |-> 565259])
    @@ (<<549253, 1000000>> :> [v |-> 246037400, u |-> 2754247, s |-> 7033072, h |-> 3000284, cv |-> 1615573, cp |-> 2164883, w |-> 565334])
    @@ (<<550000, 1000000>> :> [v |-> 246413645, u |-> 2755487, s |-> 7036014, h |-> 3001901, cv |-> 1615202, cp |-> 2163905, w |-> 565756])
    @@ (<<550000, 4000000>> :> [v |-> 54936864, u |-> 2673359, s |-> 6241707, h |-> 2893107, cv |-> 2057097, cp |-> 3131634, w |-> 530738])
    @@ (<<564444, 1000000>> :> [v |-> 253649826, u |-> 2779385, s |-> 7091891, h |-> 3033035, cv |-> 1609873, cp |-> 2148009, w |-> 573786])
    @@ (<<587064, 4000000>> :> [v |-> 61080323, u |-> 2755675, s |-> 6429934, h |-> 2999996, cv |-> 1866317, cp |-> 2697427, w |-> 560730])
    @@ (<<587071, 4000000>> :> [v |-> 61081413, u |-> 2755689, s |-> 6429966, h |-> 3000015, cv |-> 1866294, cp |-> 2697374, w |-> 560735])
    @@ (<<587795, 4000000>> :> [v |-> 61194113, u |-> 2757189, s |-> 6433288, h |-> 3001966, cv |-> 1863894, cp |-> 2691883, w |-> 561262])
    @@ (<<623150, 16529164>> :> [v |-> 8800932, u |-> 2418120, s |-> 5210888, h |-> 2563592, cv |-> 3725658, cp |-> 16641480, w |-> 424627])
    @@ (<<638810, 19979439>> :> [v |-> 5952113, u |-> 2303782, s |-> 4947791, h |-> 2422702, cv |-> 3760692, cp |-> 32588984, w |-> 392029])
    @@ (<<638896, 20000000>> :> [v |-> 5936881, u |-> 2302946, s |-> 4946006, h |-> 2421683, cv |-> 3758311, cp |-> 32729136, w |-> 391830])
    @@ (<<649654, 19979439>> :> [v |-> 7885190, u |-> 2464753, s |-> 5258058, h |-> 2622295, cv |-> 3257125, cp |-> 11760732, w |-> 450392])
    @@ (<<649785, 20000000>> :> [v |-> 7878216, u |-> 2464827, s |-> 5257956, h |-> 2622391, cv |-> 3256104, cp |-> 11754363, w |-> 450462])
    @@ (<<650000, 1000000>> :> [v |-> 295474365, u |-> 2919694, s |-> 7392372, h |-> 3215169, cv |-> 1621370, cp |-> 2124030, w |-> 617388])
    @@ (<<650000, 4000000>> :> [v |-> 70265970, u |-> 2878063, s |-> 6687671, h |-> 3159127, cv |-> 1748602, cp |-> 2411806, w |-> 601403])
    @@ (<<650000, 16529164>> :> [v |-> 11930492, u |-> 2611500, s |-> 5597242, h |-> 2808701, cv |-> 2727769, cp |-> 6208036, w |-> 501368])
    @@ (<<650000, 19979439>> :> [v |-> 7926538, u |-> 2467964, s |-> 5264269, h |-> 2626331, cv |-> 3243721, cp |-> 11571132, w |-> 451593])
    @@ (<<650000, 20000000>> :> [v |-> 7903938, u |-> 2466826, s |-> 5261825, h |-> 2624905, cv |-> 3247749, cp |-> 11635782, w |-> 451210])
    @@ (<<683183, 16529164>> :> [v |-> 14227741, u |-> 2741713, s |-> 5849981, h |-> 2976886, cv |-> 2332927, cp |-> 4301805, w |-> 549715])
    @@ (<<683191, 16529164>> :> [v |-> 14228218, u |-> 2741740, s |-> 5850031, h |-> 2976920, cv |-> 2332865, cp |-> 4301549, w |-> 549724])
    @@ (<<688664, 16529164>> :> [v |-> 14548844, u |-> 2759526, s |-> 5883688, h |-> 3000006, cv |-> 2292746, cp |-> 4138459, w |-> 556034])
    @@ (<<688734, 16529164>> :> [v |-> 14552871, u |-> 2759749, s |-> 5884109, h |-> 3000296, cv |-> 2292260, cp |-> 4136514, w |-> 556113])
    @@ (<<700000, 1000000>> :> [v |-> 319425369, u |-> 3002209, s |-> 7550165, h |-> 3321634, cv |-> 1644103, cp |-> 2136385, w |-> 640582])
    @@ (<<700000, 4000000>> :> [v |-> 77013958, u |-> 2969277, s |-> 6862910, h |-> 3277333, cv |-> 1726276, cp |-> 2328338, w |-> 628818])
    @@ (<<700000, 16529164>> :> [v |-> 15179775, u |-> 2794375, s |-> 5948906, h |-> 3045284, cv |-> 2221998, cp |-> 3861878, w |-> 568183])
    @@ (<<700000, 19979439>> :> [v |-> 11593256, u |-> 2730502, s |-> 5764648, h |-> 2962129, cv |-> 2399569, cp |-> 4683058, w |-> 547862])
    @@ (<<700000, 20000000>> :> [v |-> 11575305, u |-> 2730092, s |-> 5763550, h |-> 2961598, cv |-> 2400672, cp |-> 4688878, w |-> 547736])
    @@ (<<708350, 19979439>> :> [v |-> 12025915, u |-> 2759709, s |-> 5818404, h |-> 2999980, cv |-> 2337515, cp |-> 4393508, w |-> 557998])
    @@ (<<708371, 19979439>> :> [v |-> 12026972, u |-> 2759780, s |-> 5818535, h |-> 3000072, cv |-> 2337371, cp |-> 4392854, w |-> 558022])
    @@ (<<708460, 20000000>> :> [v |-> 12013516, u |-> 2759707, s |-> 5818052, h |-> 2999977, cv |-> 2337744, cp |-> 4394908, w |-> 558013])
    @@ (<<708481, 20000000>> :> [v |-> 12014573, u |-> 2759778, s |-> 5818182, h |-> 3000070, cv |-> 2337599, cp |-> 4394254, w |-> 558037])
    @@ (<<713548, 19979439>> :> [v |-> 12283264, u |-> 2777001, s |-> 5849960, h |-> 3022414, cv |-> 2303407, cp |-> 4241391, w |-> 563925])
    @@ (<<713554, 19979439>> :> [v |-> 12283556, u |-> 2777021, s |-> 5849996, h |-> 3022439, cv |-> 2303369, cp |-> 4241226, w |-> 563931])
    @@ (<<713717, 20000000>> :> [v |-> 12273546, u |-> 2777198, s |-> 5849964, h |-> 3022669, cv |-> 2303269, cp |-> 4241083, w |-> 564006])
    @@ (<<713722, 20000000>> :> [v |-> 12273789, u |-> 2777214, s |-> 5849993, h |-> 3022690, cv |-> 2303238, cp |-> 4240946, w |-> 564012])
    @@ (<<713723, 20000000>> :> [v |-> 12273838, u |-> 2777217, s |-> 5849999, h |-> 3022694, cv |-> 2303231, cp |-> 4240918, w |-> 564013])
    @@ (<<773148, 4000000>> :> [v |-> 86440753, u |-> 3100070, s |-> 7091891, h |-> 3445833, cv |-> 1735772, cp |-> 2289200, w |-> 664484])
    @@ (<<773150, 1000000>> :> [v |-> 354110266, u |-> 3124893, s |-> 7763965, h |-> 3479004, cv |-> 1685445, cp |-> 2168204, w |-> 672345])
    @@ (<<773150, 4000000>> :> [v |-> 86441005, u |-> 3100073, s |-> 7091896, h |-> 3445837, cv |-> 1735773, cp |-> 2289200, w |-> 664485])
    @@ (<<773150, 16529164>> :> [v |-> 18600305, u |-> 2982640, s |-> 6282218, h |-> 3290088, cv |-> 1986425, cp |-> 3006023, w |-> 628861])
    @@ (<<773150, 19979439>> :> [v |-> 14811657, u |-> 2945556, s |-> 6145327, h |-> 3241484, cv |-> 2065263, cp |-> 3282723, w |-> 618643])
    @@ (<<773150, 20000000>> :> [v |-> 14792942, u |-> 2945328, s |-> 6144549, h |-> 3241187, cv |-> 2065743, cp |-> 3284498, w |-> 618582])
    @@ (<<773151, 4000000>> :> [v |-> 86441132, u |-> 3100075, s |-> 7091899, h |-> 3445840, cv |-> 1735773, cp |-> 2289199, w |-> 664485])
    @@ (<<791278, 4000000>> :> [v |-> 88723565, u |-> 3132421, s |-> 7144925, h |-> 3487315, cv |-> 1741969, cp |-> 2287259, w |-> 672737])
    @@ (<<873753, 1000000>> :> [v |-> 401393361, u |-> 3298504, s |-> 8032482, h |-> 3699897, cv |-> 1749638, cp |-> 2224851, w |-> 712772])
    @@ (<<873754, 1000000>> :> [v |-> 401393829, u |-> 3298505, s |-> 8032484, h |-> 3699899, cv |-> 1749639, cp |-> 2224852, w |-> 712773])
    @@ (<<879566, 110000000>> :> [v |-> 2504009, u |-> 2577134, s |-> 5114268, h |-> 2852575, cv |-> 2480980, cp |-> 5065320, w |-> 818731])
    @@ (<<900000, 1000000>> :> [v |-> 413676454, u |-> 3344827, s |-> 8098567, h |-> 3758503, cv |-> 1767105, cp |-> 2240964, w |-> 722812])
    @@ (<<900000, 4000000>> :> [v |-> 102133083, u |-> 3328131, s |-> 7440168, h |-> 3736663, cv |-> 1793597, cp |-> 2306518, w |-> 718765])
    @@ (<<900000, 16529164>> :> [v |-> 23374922, u |-> 3254515, s |-> 6703061, h |-> 3640883, cv |-> 1905699, cp |-> 2621050, w |-> 702442])
    @@ (<<900000, 19979439>> :> [v |-> 19027006, u |-> 3233079, s |-> 6591582, h |-> 3613228, cv |-> 1937329, cp |-> 2720957, w |-> 698326])
    @@ (<<900000, 20000000>> :> [v |-> 19005589, u |-> 3232950, s |-> 6590962, h |-> 3613061, cv |-> 1937519, cp |-> 2721571, w |-> 698302])
    @@ (<<1000000, 1000000>> :> [v |-> 460341259, u |-> 3525430, s |-> 8337959, h |-> 3985771, cv |-> 1834821, cp |-> 2304926, w |-> 759474])
    @@ (<<1000000, 4000000>> :> [v |-> 114192981, u |-> 3512528, s |-> 7685236, h |-> 3969299, cv |-> 1851774, cp |-> 2348628, w |-> 757192])
    @@ (<<1000000, 16529164>> :> [v |-> 26727462, u |-> 3456680, s |-> 6974516, h |-> 3898462, cv |-> 1920973, cp |-> 2546101, w |-> 748702])
    @@ (<<1000000, 19979439>> :> [v |-> 21906775, u |-> 3440792, s |-> 6871155, h |-> 3878477, cv |-> 1939964, cp |-> 2605016, w |-> 746741])
    @@ (<<1000000, 20000000>> :> [v |-> 21883038, u |-> 3440696, s |-> 6870585, h |-> 3878357, cv |-> 1940077, cp |-> 2605373, w |-> 746730])
    @@ (<<1047139, 16529164>> :> [v |-> 28242060, u |-> 3551376, s |-> 7091513, h |-> 4018194, cv |-> 1936975, cp |-> 2535692, w |-> 768467])
    @@ (<<1047293, 16529164>> :> [v |-> 28246956, u |-> 3551686, s |-> 7091886, h |-> 4018584, cv |-> 1937034, cp |-> 2535675, w |-> 768529])
    @@ (<<1066392, 16529164>> :> [v |-> 28851873, u |-> 3590101, s |-> 7137697, h |-> 4066998, cv |-> 1944603, cp |-> 2534367, w |-> 776243])
    @@ (<<1066396, 16529164>> :> [v |-> 28851999, u |-> 3590109, s |-> 7137707, h |-> 4067008, cv |-> 1944604, cp |-> 2534367, w |-> 776245])
    @@ (<<1072298, 16529164>> :> [v |-> 29038035, u |-> 3601991, s |-> 7151694, h |-> 4081966, cv |-> 1947056, cp |-> 2534252, w |-> 778597])
    @@ (<<1073150, 1000000>> :> [v |-> 494379899, u |-> 3661757, s |-> 8502361, h |-> 4156137, cv |-> 1884897, cp |-> 2353210, w |-> 784908])
    @@ (<<1073150, 4000000>> :> [v |-> 122915097, u |-> 3650800, s |-> 7852340, h |-> 4142460, cv |-> 1897185, cp |-> 2386516, w |-> 783548])
    @@ (<<1073150, 16529164>> :> [v |-> 29064857, u |-> 3603707, s |-> 7153707, h |-> 4084125, cv |-> 1947414, cp |-> 2534246, w |-> 778936])
    @@ (<<1073150, 19979439>> :> [v |-> 23893977, u |-> 3590435, s |-> 7053907, h |-> 4067823, cv |-> 1961165, cp |-> 2577274, w |-> 777991])
    @@ (<<1073150, 20000000>> :> [v |-> 23868516, u |-> 3590355, s |-> 7053359, h |-> 4067725, cv |-> 1961247, cp |-> 2577533, w |-> 777986])
    @@ (<<1073150, 110000000>> :> [v |-> 3935096, u |-> 3247228, s |-> 5969307, h |-> 3680089, cv |-> 2263275, cp |-> 3641863, w |-> 831525])
    @@ (<<1088933, 19979439>> :> [v |-> 24313592, u |-> 3622709, s |-> 7091518, h |-> 4108481, cv |-> 1967132, cp |-> 2575057, w |-> 784384])
    @@ (<<1089101, 19979439>> :> [v |-> 24318044, u |-> 3623053, s |-> 7091916, h |-> 4108914, cv |-> 1967198, cp |-> 2575039, w |-> 784452])
    @@ (<<1089164, 20000000>> :> [v |-> 24293874, u |-> 3623105, s |-> 7091520, h |-> 4108982, cv |-> 1967299, cp |-> 2575276, w |-> 784473])
    @@ (<<1089332, 20000000>> :> [v |-> 24298321, u |-> 3623449, s |-> 7091917, h |-> 4109415, cv |-> 1967365, cp |-> 2575258, w |-> 784541])
    @@ (<<1091703, 1000000>> :> [v |-> 503003610, u |-> 3696907, s |-> 8542802, h |-> 4199911, cv |-> 1897667, cp |-> 2365614, w |-> 791194])
    @@ (<<1091734, 1000000>> :> [v |-> 503018017, u |-> 3696966, s |-> 8542870, h |-> 4199984, cv |-> 1897688, cp |-> 2365634, w |-> 791204])
    @@ (<<1097175, 4000000>> :> [v |-> 125766495, u |-> 3696890, s |-> 7905325, h |-> 4199956, cv |-> 1912488, cp |-> 2399862, w |-> 791928])
    @@ (<<1109409, 19979439>> :> [v |-> 24853968, u |-> 3664623, s |-> 7139475, h |-> 4161192, cv |-> 1975516, cp |-> 2573769, w |-> 792515])
    @@ (<<1109611, 20000000>> :> [v |-> 24832954, u |-> 3664964, s |-> 7139403, h |-> 4161623, cv |-> 1975674, cp |-> 2573990, w |-> 792592])
    @@ (<<1118699, 16529164>> :> [v |-> 30487483, u |-> 3695674, s |-> 7259095, h |-> 4199606, cv |-> 1968052, cp |-> 2537523, w |-> 796609])
    @@ (<<1118871, 16529164>> :> [v |-> 30492816, u |-> 3696022, s |-> 7259485, h |-> 4200043, cv |-> 1968135, cp |-> 2537547, w |-> 796674])
    @@ (<<1124286, 19979439>> :> [v |-> 25243961, u |-> 3695121, s |-> 7173759, h |-> 4199481, cv |-> 1982049, cp |-> 2573866, w |-> 798312])
    @@ (<<1124318, 20000000>> :> [v |-> 25218125, u |-> 3695116, s |-> 7173295, h |-> 4199478, cv |-> 1982131, cp |-> 2574081, w |-> 798322])
    @@ (<<1124511, 19979439>> :> [v |-> 25249843, u |-> 3695583, s |-> 7174274, h |-> 4200060, cv |-> 1982151, cp |-> 2573874, w |-> 798399])
    @@ (<<1124544, 20000000>> :> [v |-> 25224028, u |-> 3695580, s |-> 7173812, h |-> 4200060, cv |-> 1982233, cp |-> 2574089, w |-> 798410])
    @@ (<<1252554, 20000000>> :> [v |-> 28503647, u |-> 3960927, s |-> 7452492, h |-> 4531000, cv |-> 2054020, cp |-> 2604793, w |-> 844760])
    @@ (<<1252677, 19979439>> :> [v |-> 28536465, u |-> 3961240, s |-> 7453266, h |-> 4531383, cv |-> 2054051, cp |-> 2604699, w |-> 844799])
    @@ (<<1277166, 16529164>> :> [v |-> 35305915, u |-> 4021712, s |-> 7598162, h |-> 4605289, cv |-> 2063029, cp |-> 2593145, w |-> 852473])
    @@ (<<1279840, 19979439>> :> [v |-> 29219463, u |-> 4018515, s |-> 7509276, h |-> 4602303, cv |-> 2073362, cp |-> 2617515, w |-> 853860])
    @@ (<<1279847, 19979439>> :> [v |-> 29219639, u |-> 4018530, s |-> 7509290, h |-> 4602322, cv |-> 2073368, cp |-> 2617519, w |-> 853862])
    @@ (<<1281090, 20000000>> :> [v |-> 29220402, u |-> 4021109, s |-> 7511316, h |-> 4605517, cv |-> 2074344, cp |-> 2618296, w |-> 854273])
    @@ (<<1281096, 20000000>> :> [v |-> 29220553, u |-> 4021121, s |-> 7511328, h |-> 4605533, cv |-> 2074349, cp |-> 2618299, w |-> 854275])
    @@ (<<1407955, 1000000>> :> [v |-> 649659738, u |-> 4335307, s |-> 9172974, h |-> 4984967, cv |-> 2157369, cp |-> 2622014, w |-> 888483])
    @@ (<<1408029, 1000000>> :> [v |-> 649694006, u |-> 4335467, s |-> 9173112, h |-> 4985161, cv |-> 2157454, cp |-> 2622099, w |-> 888503])
    @@ (<<1490510, 4000000>> :> [v |-> 171948835, u |-> 4511847, s |-> 8681478, h |-> 5199642, cv |-> 2269307, cp |-> 2741442, w |-> 911457])
    @@ (<<1600135, 1000000>> :> [v |-> 738616484, u |-> 4777632, s |-> 9526251, h |-> 5516249, cv |-> 2485602, cp |-> 2949523, w |-> 936272])

\* T_ph1: <<p, value>> -> T
T_ph1Tab ==
       (<<1000000, 113492>> :> 300021)
    @@ (<<1000000, 116250>> :> 300681)
    @@ (<<1000000, 419774>> :> 373151)
    @@ (<<1000000, 632575>> :> 423172)
    @@ (<<1000000, 1200000>> :> 545626)
    @@ (<<4000000, 116250>> :> 300016)
    @@ (<<4000000, 422029>> :> 373148)
    @@ (<<4000000, 634433>> :> 423169)
    @@ (<<4000000, 853387>> :> 473158)
    @@ (<<4000000, 1085686>> :> 523127)
    @@ (<<4000000, 1200000>> :> 545907)
    @@ (<<16529164, 116250>> :> 297234)
    @@ (<<16529164, 127697>> :> 300000)
    @@ (<<16529164, 431476>> :> 373138)
    @@ (<<16529164, 642311>> :> 423161)
    @@ (<<16529164, 858805>> :> 473163)
    @@ (<<16529164, 1086180>> :> 523140)
    @@ (<<16529164, 1200000>> :> 546696)
    @@ (<<16529164, 1493695>> :> 600012)
    @@ (<<19979439, 116250>> :> 296466)
    @@ (<<19979439, 130830>> :> 299997)
    @@ (<<19979439, 434084>> :> 373136)
    @@ (<<19979439, 644511>> :> 423159)
    @@ (<<19979439, 860382>> :> 473165)
    @@ (<<19979439, 1086581>> :> 523145)
    @@ (<<19979439, 1200000>> :> 546822)
    @@ (<<19979439, 1486306>> :> 600007)
    @@ (<<20000000, 116250>> :> 296461)
    @@ (<<20000000, 130849>> :> 299997)
    @@ (<<20000000, 434100>> :> 373136)
    @@ (<<20000000, 644524>> :> 423159)
    @@ (<<20000000, 860391>> :> 473165)
    @@ (<<20000000, 1086584>> :> 523145)
    @@ (<<20000000, 1200000>> :> 546822)
    @@ (<<20000000, 1486267>> :> 600007)

\* T_ph2a: <<p, value>> -> T
T_ph2aTab ==
       (<<1000000, 3000000>> :> 549119)
    @@ (<<1000000, 3001901>> :> 549997)
    @@ (<<1000000, 3215169>> :> 649998)
    @@ (<<1000000, 3321634>> :> 699994)
    @@ (<<1000000, 3479004>> :> 773144)
    @@ (<<1000000, 3758503>> :> 899997)
    @@ (<<1000000, 3985771>> :> 999997)
    @@ (<<1000000, 4200000>> :> 1091734)
    @@ (<<4000000, 2893107>> :> 550007)
    @@ (<<4000000, 3000000>> :> 587064)
    @@ (<<4000000, 3159127>> :> 649998)
    @@ (<<4000000, 3277333>> :> 699992)
    @@ (<<4000000, 3445837>> :> 773150)
    @@ (<<4000000, 3736663>> :> 900000)
    @@ (<<4000000, 3969299>> :> 999999)
    @@ (<<4000000, 4200000>> :> 1097175)
    @@ (<<16529164, 3290088>> :> 770202)
    @@ (<<16529164, 3640883>> :> 899070)
    @@ (<<16529164, 3898462>> :> 999868)
    @@ (<<16529164, 4200000>> :> 1118699)
    @@ (<<19979439, 3241484>> :> 713904)
    @@ (<<19979439, 3613228>> :> 898141)
    @@ (<<19979439, 3878477>> :> 999673)
    @@ (<<19979439, 4200000>> :> 1124286)
    @@ (<<20000000, 3241187>> :> 712870)
    @@ (<<20000000, 3613061>> :> 898134)
    @@ (<<20000000, 3878357>> :> 999671)
    @@ (<<20000000, 4200000>> :> 1124318)

\* T_ph2b: <<p, value>> -> T
T_ph2bTab ==
       (<<1000000, 3000000>> :> 549253)
    @@ (<<1000000, 3001901>> :> 550126)
    @@ (<<1000000, 3215169>> :> 649936)
    @@ (<<1000000, 3321634>> :> 700003)
    @@ (<<1000000, 3479004>> :> 773211)
    @@ (<<1000000, 3758503>> :> 900041)
    @@ (<<1000000, 3985771>> :> 1000007)
    @@ (<<1000000, 4200000>> :> 1091703)
    @@ (<<4000000, 2893107>> :> 550005)
    @@ (<<4000000, 3000000>> :> 587071)
    @@ (<<4000000, 3159127>> :> 649998)
    @@ (<<4000000, 3277333>> :> 699998)
    @@ (<<4000000, 3445837>> :> 773157)
    @@ (<<4000000, 3736663>> :> 900006)
    @@ (<<4000000, 3969299>> :> 1000005)
    @@ (<<4000000, 4200000>> :> 1097175)
    @@ (<<16529164, 2808701>> :> 649537)
    @@ (<<16529164, 3000000>> :> 688664)
    @@ (<<16529164, 3045284>> :> 700004)
    @@ (<<16529164, 3290088>> :> 773147)
    @@ (<<16529164, 3640883>> :> 900009)
    @@ (<<16529164, 3898462>> :> 1000000)
    @@ (<<16529164, 4200000>> :> 1118871)
    @@ (<<19979439, 2626331>> :> 861074)
    @@ (<<19979439, 2962129>> :> 700002)
    @@ (<<19979439, 3000000>> :> 708350)
    @@ (<<19979439, 3241484>> :> 773150)
    @@ (<<19979439, 3613228>> :> 900009)
    @@ (<<19979439, 3878477>> :> 1000001)
    @@ (<<19979439, 4200000>> :> 1124511)
    @@ (<<20000000, 2624905>> :> 870163)
    @@ (<<20000000, 2961598>> :> 700002)
    @@ (<<20000000, 3000000>> :> 708460)
    @@ (<<20000000, 3241187>> :> 773150)
    @@ (<<20000000, 3613061>> :> 900009)
    @@ (<<20000000, 3878357>> :> 1000001)
    @@ (<<20000000, 4200000>> :> 1124544)

\* T_ph2c: <<p, value>> -> T
T_ph2cTab ==
       (<<1000000, 3000000>> :> 547700)
    @@ (<<1000000, 3001901>> :> 548664)
    @@ (<<1000000, 3215169>> :> 673694)
    @@ (<<1000000, 3321634>> :> 747386)
    @@ (<<1000000, 3479004>> :> 868400)
    @@ (<<1000000, 3758503>> :> 1116332)
    @@ (<<1000000, 3985771>> :> 1349739)
    @@ (<<1000000, 4200000>> :> 1600135)
    @@ (<<4000000, 2893107>> :> 549692)
    @@ (<<4000000, 3000000>> :> 587795)
    @@ (<<4000000, 3159127>> :> 658860)
    @@ (<<4000000, 3277333>> :> 721985)
    @@ (<<4000000, 3445837>> :> 826203)
    @@ (<<4000000, 3736663>> :> 1043567)
    @@ (<<4000000, 3969299>> :> 1251690)
    @@ (<<4000000, 4200000>> :> 1490510)
    @@ (<<16529164, 2808701>> :> 650007)
    @@ (<<16529164, 3000000>> :> 688734)
    @@ (<<16529164, 3045284>> :> 700204)
    @@ (<<16529164, 3290088>> :> 777147)
    @@ (<<16529164, 3640883>> :> 930145)
    @@ (<<16529164, 3898462>> :> 1074061)
    @@ (<<16529164, 4200000>> :> 1277166)
    @@ (<<19979439, 2626331>> :> 649990)
    @@ (<<19979439, 2962129>> :> 699994)
    @@ (<<19979439, 3000000>> :> 708371)
    @@ (<<19979439, 3241484>> :> 774784)
    @@ (<<19979439, 3613228>> :> 919758)
    @@ (<<19979439, 3878477>> :> 1054301)
    @@ (<<19979439, 4200000>> :> 1252677)
    @@ (<<20000000, 2624905>> :> 649991)
    @@ (<<20000000, 2961598>> :> 699993)
    @@ (<<20000000, 3000000>> :> 708481)
    @@ (<<20000000, 3241187>> :> 774774)
    @@ (<<20000000, 3613061>> :> 919707)
    @@ (<<20000000, 3878357>> :> 1054201)
    @@ (<<20000000, 4200000>> :> 1252554)

\* T_ps1: <<p, value>> -> T
T_ps1Tab ==
       (<<1000000, 392016>> :> 299939)
    @@ (<<1000000, 392849>> :> 299999)
    @@ (<<1000000, 1306311>> :> 373153)
    @@ (<<1000000, 1841366>> :> 423154)
    @@ (<<1000000, 3000000>> :> 544160)
    @@ (<<4000000, 392016>> :> 299999)
    @@ (<<4000000, 1303976>> :> 373152)
    @@ (<<4000000, 1838037>> :> 423153)
    @@ (<<4000000, 2326932>> :> 473145)
    @@ (<<4000000, 2793329>> :> 523143)
    @@ (<<4000000, 3000000>> :> 545173)
    @@ (<<16529164, 388454>> :> 299997)
    @@ (<<16529164, 392016>> :> 300255)
    @@ (<<16529164, 1294426>> :> 373152)
    @@ (<<16529164, 1824555>> :> 423150)
    @@ (<<16529164, 2307983>> :> 473146)
    @@ (<<16529164, 2764555>> :> 523146)
    @@ (<<16529164, 3000000>> :> 549198)
    @@ (<<16529164, 3488954>> :> 599993)
    @@ (<<19979439, 387449>> :> 299996)
    @@ (<<19979439, 392016>> :> 300328)
    @@ (<<19979439, 1291850>> :> 373152)
    @@ (<<19979439, 1820955>> :> 423150)
    @@ (<<19979439, 2302998>> :> 473146)
    @@ (<<19979439, 2757222>> :> 523148)
    @@ (<<19979439, 3000000>> :> 550253)
    @@ (<<19979439, 3468056>> :> 599989)
    @@ (<<20000000, 387443>> :> 299996)
    @@ (<<20000000, 392016>> :> 300329)
    @@ (<<20000000, 1291835>> :> 373152)
    @@ (<<20000000, 1820933>> :> 423150)
    @@ (<<20000000, 2302969>> :> 473146)
    @@ (<<20000000, 2757179>> :> 523148)
    @@ (<<20000000, 3000000>> :> 550259)
    @@ (<<20000000, 3467939>> :> 599989)

\* T_ps2a: <<p, value>> -> T
T_ps2aTab ==
       (<<1000000, 5850000>> :> 1407955)
    @@ (<<1000000, 5850001>> :> 1408029)
    @@ (<<1000000, 7036014>> :> 549999)
    @@ (<<1000000, 7091896>> :> 564444)
    @@ (<<1000000, 7392372>> :> 650000)
    @@ (<<1000000, 7550165>> :> 699999)
    @@ (<<1000000, 7763965>> :> 773148)
    @@ (<<1000000, 8098567>> :> 900001)
    @@ (<<1000000, 8337959>> :> 999999)
    @@ (<<4000000, 5850000>> :> 521058)
    @@ (<<4000000, 5850001>> :> 521057)
    @@ (<<4000000, 6241707>> :> 549999)
    @@ (<<4000000, 6687671>> :> 650001)
    @@ (<<4000000, 6862910>> :> 699997)
    @@ (<<4000000, 7091896>> :> 773148)
    @@ (<<4000000, 7440168>> :> 900000)
    @@ (<<4000000, 7685236>> :> 999999)
    @@ (<<16529164, 5597242>> :> 15094890)
    @@ (<<16529164, 5850000>> :> 1066396)
    @@ (<<16529164, 5850001>> :> 1066392)
    @@ (<<16529164, 5948906>> :> 821997)
    @@ (<<16529164, 6282218>> :> 777154)
    @@ (<<16529164, 6703061>> :> 899793)
    @@ (<<16529164, 6974516>> :> 999801)
    @@ (<<16529164, 7091896>> :> 1047139)
    @@ (<<19979439, 5764648>> :> 2385612)
    @@ (<<19979439, 5850000>> :> 1279847)
    @@ (<<19979439, 5850001>> :> 1279840)
    @@ (<<19979439, 6145327>> :> 793822)
    @@ (<<19979439, 6591582>> :> 899887)
    @@ (<<19979439, 6871155>> :> 999720)
    @@ (<<19979439, 7091896>> :> 1088933)
    @@ (<<20000000, 5763550>> :> 2413852)
    @@ (<<20000000, 5850000>> :> 1281096)
    @@ (<<20000000, 5850001>> :> 1281090)
    @@ (<<20000000, 6144549>> :> 794020)
    @@ (<<20000000, 6590962>> :> 899888)
    @@ (<<20000000, 6870585>> :> 999720)
    @@ (<<20000000, 7091896>> :> 1089164)

\* T_ps2b: <<p, value>> -> T
T_ps2bTab ==
       (<<1000000, 7036014>> :> 81152812)
    @@ (<<1000000, 7392372>> :> 81643544)
    @@ (<<1000000, 7550165>> :> 81871256)
    @@ (<<1000000, 7763965>> :> 82185346)
    @@ (<<1000000, 8098567>> :> 82689559)
    @@ (<<1000000, 8337959>> :> 83060348)
    @@ (<<4000000, 5850000>> :> 505515)
    @@ (<<4000000, 5850001>> :> 505515)
    @@ (<<4000000, 6241707>> :> 549997)
    @@ (<<4000000, 6687671>> :> 649997)
    @@ (<<4000000, 6862910>> :> 699999)
    @@ (<<4000000, 7091896>> :> 773151)
    @@ (<<4000000, 7440168>> :> 899997)
    @@ (<<4000000, 7685236>> :> 1000003)
    @@ (<<16529164, 5597242>> :> 649885)
    @@ (<<16529164, 5850000>> :> 683191)
    @@ (<<16529164, 5850001>> :> 683191)
    @@ (<<16529164, 5948906>> :> 699997)
    @@ (<<16529164, 6282218>> :> 773154)
    @@ (<<16529164, 6703061>> :> 900001)
    @@ (<<16529164, 6974516>> :> 999996)
    @@ (<<16529164, 7091896>> :> 1047293)
    @@ (<<19979439, 5264269>> :> 648685)
    @@ (<<19979439, 5764648>> :> 700011)
    @@ (<<19979439, 5850000>> :> 713554)
    @@ (<<19979439, 5850001>> :> 713554)
    @@ (<<19979439, 6145327>> :> 773151)
    @@ (<<19979439, 6591582>> :> 900003)
    @@ (<<19979439, 6871155>> :> 999996)
    @@ (<<19979439, 7091896>> :> 1089101)
    @@ (<<20000000, 5261825>> :> 648669)
    @@ (<<20000000, 5763550>> :> 700011)
    @@ (<<20000000, 5850000>> :> 713722)
    @@ (<<20000000, 5850001>> :> 713723)
    @@ (<<20000000, 6144549>> :> 773151)
    @@ (<<20000000, 6590962>> :> 900003)
    @@ (<<20000000, 6870585>> :> 999996)
    @@ (<<20000000, 7091896>> :> 1089332)

\* T_ps2c: <<p, value>> -> T
T_ps2cTab ==
       (<<1000000, 5850000>> :> 873754)
    @@ (<<1000000, 5850001>> :> 873753)
    @@ (<<1000000, 7036014>> :> 207549)
    @@ (<<1000000, 7392372>> :> 97232)
    @@ (<<1000000, 7550165>> :> 64030)
    @@ (<<1000000, 7763965>> :> 35329)
    @@ (<<1000000, 8098567>> :> 30156)
    @@ (<<1000000, 8337959>> :> 57962)
    @@ (<<4000000, 5850000>> :> 503358)
    @@ (<<4000000, 5850001>> :> 503358)
    @@ (<<4000000, 6241707>> :> 547166)
    @@ (<<4000000, 6687671>> :> 647499)
    @@ (<<4000000, 6862910>> :> 703316)
    @@ (<<4000000, 7091896>> :> 791278)
    @@ (<<4000000, 7440168>> :> 959587)
    @@ (<<4000000, 7685236>> :> 1104340)
    @@ (<<16529164, 5597242>> :> 650009)
    @@ (<<16529164, 5850000>> :> 683183)
    @@ (<<16529164, 5850001>> :> 683183)
    @@ (<<16529164, 5948906>> :> 700010)
    @@ (<<16529164, 6282218>> :> 774014)
    @@ (<<16529164, 6703061>> :> 907842)
    @@ (<<16529164, 6974516>> :> 1018597)
    @@ (<<16529164, 7091896>> :> 1072298)
    @@ (<<19979439, 5264269>> :> 649992)
    @@ (<<19979439, 5764648>> :> 699995)
    @@ (<<19979439, 5850000>> :> 713548)
    @@ (<<19979439, 5850001>> :> 713548)
    @@ (<<19979439, 6145327>> :> 773391)
    @@ (<<19979439, 6591582>> :> 904337)
    @@ (<<19979439, 6871155>> :> 1011615)
    @@ (<<19979439, 7091896>> :> 1109409)
    @@ (<<20000000, 5261825>> :> 649993)
    @@ (<<20000000, 5763550>> :> 699995)
    @@ (<<20000000, 5850000>> :> 713717)
    @@ (<<20000000, 5850001>> :> 713717)
    @@ (<<20000000, 6144549>> :> 773389)
    @@ (<<20000000, 6590962>> :> 904322)
    @@ (<<20000000, 6870585>> :> 1011583)
    @@ (<<20000000, 7091896>> :> 1109611)

\* SaturationCurve.T_p: p -> T
sc_T_pTab ==
       (1000000 :> 453036)
    @@ (4000000 :> 523508)
    @@ (16529164 :> 623150)
    @@ (19979439 :> 638810)
    @@ (20000000 :> 638896)

\* SaturationCurve.p_T: T -> p
sc_p_TTab ==
       (623150 :> 16529164)

\* Boundary23.T_p: p -> T
b23_T_pTab ==
       (16529164 :> 623150)
    @@ (19979439 :> 649654)
    @@ (20000000 :> 649785)
    @@ (110000000 :> 879566)

\* Region2.__p2b2c_h: h -> p
p2b2c_hTab ==
       (2624905 :> 4624411)
    @@ (2626331 :> 4614533)
    @@ (2808701 :> 7644708)
    @@ (2893107 :> 11931425)
    @@ (2961598 :> 16751237)
    @@ (2962129 :> 16793299)
    @@ (3000000 :> 19979439)
    @@ (3001901 :> 20149057)
    @@ (3045284 :> 24271580)
    @@ (3159127 :> 37382344)
    @@ (3215169 :> 45055945)
    @@ (3241187 :> 48891959)
    @@ (3241484 :> 48936749)
    @@ (3277333 :> 54509031)
    @@ (3290088 :> 56571046)
    @@ (3321634 :> 61849884)
    @@ (3445837 :> 85111576)
    @@ (3479004 :> 91991911)
    @@ (3613061 :> 122672858)
    @@ (3613228 :> 122713950)
    @@ (3640883 :> 129617230)
    @@ (3736663 :> 155040326)
    @@ (3758503 :> 161166406)
    @@ (3878357 :> 196960532)
    @@ (3878477 :> 196998214)
    @@ (3898462 :> 203325275)
    @@ (3969299 :> 226575668)
    @@ (3985771 :> 232166385)
    @@ (4200000 :> 311207838)

-----------------------------------------------------------------------------
\* The input grid

PGrid == <<4000000, 16529164, 19979439, 20000000, 1000000>>

Pcalc == {PGrid[i] : i \in 1..(IF NP < Len(PGrid) THEN NP ELSE Len(PGrid))}

\* with one pressure below the saturation curve's range and one above p_max
Pall == Pcalc \cup {500, 110000000}

Tin(slf) == IF slf = "Region1" THEN {300000, 423150} ELSE {773150, 1073150}

\* Celsius inputs of props_tp, in m degC
tin(slf) == IF slf = "Region1" THEN {26850, 150000} ELSE {500000, 800000}

Hin(slf) == IF slf = "Region1" THEN {116250, 1200000} ELSE {3000000, 4200000}

Sin(slf) == IF slf = "Region1" THEN {392016, 3000000} ELSE {5850000, 5850001, 7091896}

Fields == {"T", "p", "v", "u", "s", "h", "cv", "cp", "w", "x"}

-----------------------------------------------------------------------------
\* Collaborators

\* SaturationCurve.p_T (the constructors call it at 623.15 K)
sc_p_T(T) == sc_p_TTab[T]

\* SaturationCurve.T_p: a range error outside [611.212677 Pa, 22.064e6 Pa]
sc_T_p(p) ==
    IF ~(611 <= p /\ p <= 22064000)
    THEN [ok |-> FALSE, T |-> 0]
    ELSE [ok |-> TRUE, T |-> sc_T_pTab[p]]

\* Boundary23.T_p: no range check
bound23_T_p(p) == b23_T_pTab[p]

\* ParamsIn: the limits every region starts with
T_min == 273150
T_max == 1073150
p_min == 611
p_max == 100000000

ParamsIn_p_in(p) == p_min <= p /\ p <= p_max

\* ParamsIn.__init__: the dict starts empty
ParamsIn_props == << >>

-----------------------------------------------------------------------------
\* The dict self.props

Put(d, k, v) == (k :> v) @@ d

RECURSIVE ApplyWrites(_, _)
ApplyWrites(d, ws) ==
    IF ws = << >> THEN d
    ELSE ApplyWrites(Put(d, ws[1][1], ws[1][2]), Tail(ws))

-----------------------------------------------------------------------------
\* Region1

Region1_T_max == 623150

\* Region1.__init__
p_right_lower == sc_p_T(Region1_T_max)

\* fault injection: Region1._get_T_edges with p >= p_right_lower for p > p_right_lower
Region1_get_T_edges_ge(p) ==
    IF p >= p_right_lower
    THEN [ok |-> TRUE, lower |-> T_min, upper |-> Region1_T_max, via |-> "T_max"]
    ELSE LET st == sc_T_p(p)
         IN  [ok |-> st.ok, lower |-> T_min, upper |-> st.T, via |-> "sc"]

\* Region1._get_T_edges; via names what gave the upper edge
Region1_get_T_edges(p) ==
    IF p > p_right_lower
    THEN [ok |-> TRUE, lower |-> T_min, upper |-> Region1_T_max, via |-> "T_max"]
    ELSE LET st == sc_T_p(p)
         IN  [ok |-> st.ok, lower |-> T_min, upper |-> st.T, via |-> "sc"]

\* Region1._props_Tp: its assignments to self.props, in order
Region1_props_Tp(T, p) ==
    LET g == Gibbs1Tab[<<T, p>>]
    IN  << <<"x", -1>>, <<"v", g.v>>, <<"u", g.u>>, <<"s", g.s>>, <<"h", g.h>>,
           <<"cv", g.cv>>, <<"cp", g.cp>>, <<"w", g.w>> >>

Region1_T_ph(p, h) == T_ph1Tab[<<p, h>>]

Region1_T_ps(p, s) == T_ps1Tab[<<p, s>>]

-----------------------------------------------------------------------------
\* Region2

\* Region2.__init__
p_s_marg == sc_p_T(623150)

\* fault injection: Region2._get_T_edges with p > p_s_marg for p >= p_s_marg
Region2_get_T_edges_gt(p) ==
    IF p > p_s_marg
    THEN [ok |-> TRUE, lower |-> bound23_T_p(p), upper |-> T_max, via |-> "bound23"]
    ELSE LET st == sc_T_p(p)
         IN  [ok |-> st.ok, lower |-> st.T, upper |-> T_max, via |-> "sc"]

\* fault injection: Region2._get_T_edges asking bound23 at every pressure; below
\* the saturation pressure at 623.15 K the curve gives no edge
Region2_get_T_edges_b23(p) ==
    IF p >= p_s_marg
    THEN [ok |-> TRUE, lower |-> bound23_T_p(p), upper |-> T_max, via |-> "bound23"]
    ELSE [ok |-> FALSE, lower |-> 0, upper |-> T_max, via |-> "bound23"]

\* Region2._get_T_edges; via names what gave the lower edge
Region2_get_T_edges(p) ==
    IF p >= p_s_marg
    THEN [ok |-> TRUE, lower |-> bound23_T_p(p), upper |-> T_max, via |-> "bound23"]
    ELSE LET st == sc_T_p(p)
         IN  [ok |-> st.ok, lower |-> st.T, upper |-> T_max, via |-> "sc"]

\* fault injection: Region2._props_Tp storing Region1's tag, props['x'] = -1
Region2_props_Tp_water(T, p) ==
    LET g == Gibbs2Tab[<<T, p>>]
    IN  << <<"v", g.v>>, <<"u", g.u>>, <<"s", g.s>>, <<"h", g.h>>,
           <<"cv", g.cv>>, <<"cp", g.cp>>, <<"w", g.w>>, <<"x", -1>> >>

\* Region2._props_Tp: its assignments to self.props, in order
Region2_props_Tp(T, p) ==
    LET g == Gibbs2Tab[<<T, p>>]
    IN  << <<"v", g.v>>, <<"u", g.u>>, <<"s", g.s>>, <<"h", g.h>>,
           <<"cv", g.cv>>, <<"cp", g.cp>>, <<"w", g.w>>, <<"x", 2>> >>

\* Region2.__p2b2c_h: 1e6 * (n0 + n1 * teta + n2 * teta^2), teta = h / 1000
Region2_p2b2c_h(h) == p2b2c_hTab[h]

\* fault injection: Region2.T_ph with the correlations of b and c exchanged
Region2_T_ph2_swap(c, p, h) ==
    CASE c = "a" -> T_ph2aTab[<<p, h>>]
      [] c = "b" -> T_ph2cTab[<<p, h>>]
      [] c = "c" -> T_ph2bTab[<<p, h>>]

Region2_T_ph2(c, p, h) ==
    CASE c = "a" -> T_ph2aTab[<<p, h>>]
      [] c = "b" -> T_ph2bTab[<<p, h>>]
      [] c = "c" -> T_ph2cTab[<<p, h>>]

Region2_T_ps2(c, p, s) ==
    CASE c = "a" -> T_ps2aTab[<<p, s>>]
      [] c = "b" -> T_ps2bTab[<<p, s>>]
      [] c = "c" -> T_ps2cTab[<<p, s>>]

\* fault injection: Region2.T_ph with p <= p2b2c(h) for p < p2b2c(h)
Region2_T_ph_sub_le(p, h) ==
    IF p <= 4000000 THEN "a"
    ELSE IF p <= Region2_p2b2c_h(h) THEN "b"
    ELSE "c"

\* Region2.T_ph: the branch it takes
Region2_T_ph_sub(p, h) ==
    IF p <= 4000000 THEN "a"
    ELSE IF p < Region2_p2b2c_h(h) THEN "b"
    ELSE "c"

Region2_T_ph(p, h) == Region2_T_ph2(Region2_T_ph_sub(p, h), p, h)

\* fault injection: Region2.T_ps with s >= 5850. for s > 5850.
Region2_T_ps_sub_ge(p, s) ==
    IF p <= 4000000 THEN "a"
    ELSE IF s >= 5850000 THEN "b"
    ELSE "c"

\* Region2.T_ps: the branch it takes
Region2_T_ps_sub(p, s) ==
    IF p <= 4000000 THEN "a"
    ELSE IF s > 5850000 THEN "b"
    ELSE "c"

Region2_T_ps(p, s) == Region2_T_ps2(Region2_T_ps_sub(p, s), p, s)

-----------------------------------------------------------------------------
\* Region: the methods both classes inherit, dispatched on the class

get_T_edges(slf, p) ==
    IF slf = "Region1" THEN Region1_get_T_edges(p) ELSE Region2_get_T_edges(p)

T_ph(slf, p, h) ==
    IF slf = "Region1" THEN Region1_T_ph(p, h) ELSE Region2_T_ph(p, h)

T_ps(slf, p, s) ==
    IF slf = "Region1" THEN Region1_T_ps(p, s) ELSE Region2_T_ps(p, s)

\* the assignments of self._props_Tp(T, p)
props_Tp_writes(slf, T, p) ==
    IF slf = "Region1" THEN Region1_props_Tp(T, p) ELSE Region2_props_Tp(T, p)

\* Region.props_Tp: every assignment to self.props, in order; the copy of the
\* dict after the last one is returned
Region_props_Tp(slf, T, p) ==
    props_Tp_writes(slf, T, p) \o << <<"T", T>>, <<"p", p>> >>

\* the caller keeps no record; the caller keeps one of the records it gets
NoHold == [obj |-> "-", val |-> << >>]
KeepNext == [obj |-> "next", val |-> << >>]

\* fault injection: return self.props for return self.props.copy()
Region_return_self(d) == [obj |-> "self.props", val |-> d]

\* the object props_Tp / props_ph / props_ps return: self.props.copy(), a new
\* dict with the values of self.props at that moment
Region_return(d) == [obj |-> "copy", val |-> d]

\* fault injection: Region.props_tp leaving the Celsius value in props['T']
Region_props_tp_C(slf, t, p) ==
    Region_props_Tp(slf, t + 273150, p) \o << <<"T", t>> >>

\* Region.props_tp
Region_props_tp(slf, t, p) == Region_props_Tp(slf, t + 273150, p)

\* fault injection: Region.props_ph without the assignment props['T'] = T
Region_props_ph_noT(slf, p, h) ==
    LET T == T_ph(slf, p, h)
    IN  props_Tp_writes(slf, T, p) \o << <<"h", h>> >>

\* Region.props_ph
Region_props_ph(slf, p, h) ==
    LET T == T_ph(slf, p, h)
    IN  props_Tp_writes(slf, T, p) \o << <<"T", T>>, <<"h", h>> >>

\* Region.props_ps
Region_props_ps(slf, p, s) ==
    LET T == T_ps(slf, p, s)
    IN  props_Tp_writes(slf, T, p) \o << <<"T", T>>, <<"s", s>> >>

\* fault injection: Region._pX_in with value < value_upper for value <= value_upper
Region_pX_in_strict(slf, d, p, value, X) ==
    IF ~ParamsIn_p_in(p)
    THEN [props |-> d, ok |-> TRUE, val |-> FALSE, edges |-> FALSE]
    ELSE LET e == get_T_edges(slf, p)
         IN  IF ~e.ok
             THEN [props |-> d, ok |-> FALSE, val |-> FALSE, edges |-> TRUE]
             ELSE LET d1 == ApplyWrites(d, Region_props_Tp(slf, e.lower, p))
                      d2 == ApplyWrites(d1, Region_props_Tp(slf, e.upper, p))
                      value_lower == d1[X]
                      value_upper == d2[X]
                  IN  [props |-> d2, ok |-> TRUE,
                       val |-> (value_lower <= value /\ value < value_upper),
                       edges |-> TRUE]

\* Region._pX_in: the dict it leaves and what it returns
Region_pX_in(slf, d, p, value, X) ==
    IF ~ParamsIn_p_in(p)
    THEN [props |-> d, ok |-> TRUE, val |-> FALSE, edges |-> FALSE]
    ELSE LET e == get_T_edges(slf, p)
         IN  IF ~e.ok
             THEN [props |-> d, ok |-> FALSE, val |-> FALSE, edges |-> TRUE]
             ELSE LET d1 == ApplyWrites(d, Region_props_Tp(slf, e.lower, p))
                      d2 == ApplyWrites(d1, Region_props_Tp(slf, e.upper, p))
                      value_lower == d1[X]
                      value_upper == d2[X]
                  IN  [props |-> d2, ok |-> TRUE,
                       val |-> (value_lower <= value /\ value <= value_upper),
                       edges |-> TRUE]

-----------------------------------------------------------------------------
\* What a call is checked against

\* the record a forward evaluation at (T, p) builds in an empty dict
Forward(slf, T, p) == ApplyWrites(<< >>, Region_props_Tp(slf, T, p))

\* the collaborator _get_T_edges calls for its pressure-dependent edge
EdgeCalls(slf, p) ==
    LET e == get_T_edges(slf, p)
    IN  CASE e.via = "sc" -> {<<"sc.T_p", p>>}
          [] e.via = "bound23" -> {<<"bound23.T_p", p>>}
          [] OTHER -> {}

\* the value a sequence of assignments leaves under key k
Written(ws, k) ==
    LET i == CHOOSE i \in 1..Len(ws) :
                 ws[i][1] = k /\ \A j \in (i + 1)..Len(ws) : ws[j][1] # k
    IN  ws[i][2]

\* property X forward-evaluated at (T, p)
ForwardX(slf, T, p, X) == Written(Region_props_Tp(slf, T, p), X)

\* the values of property X at the two temperature edges, where they exist
EdgeVals(slf, p, X) ==
    LET e == get_T_edges(slf, p)
    IN  IF ParamsIn_p_in(p) /\ e.ok
        THEN {ForwardX(slf, e.lower, p, X), ForwardX(slf, e.upper, p, X)}
        ELSE {}

Vals(slf, X) == IF X = "h" THEN Hin(slf) ELSE Sin(slf)

Threads == 1..NThreads

NoCall == [op |-> "-", a |-> 0, b |-> 0]

-----------------------------------------------------------------------------
\* One instance, its calls one after another

\* a new instance; h tells whether its caller keeps a record it gets back
InitRegion(h) ==
    /\ self \in {"Region1", "Region2"}
    /\ props = ParamsIn_props
    /\ last = [op |-> "__init__", a |-> 0, b |-> 0, X |-> "-"]
    /\ ret = [kind |-> "none", val |-> 0]
    /\ sub = "-"
    /\ collab = {}
    /\ pc = [t \in Threads |-> 0]
    /\ call = [t \in Threads |-> NoCall]
    /\ tret = [t \in Threads |-> << >>]
    /\ frames = << >>
    /\ valve = << >>
    /\ hx = << >>
    /\ held = h

Init == InitRegion(NoHold)

Returns(op, a, b, X, kind, val) ==
    /\ last' = [op |-> op, a |-> a, b |-> b, X |-> X]
    /\ ret' = [kind |-> kind, val |-> val]
    /\ IF kind = "record" /\ held = KeepNext
       THEN held' \in {held, Region_return(val)}
       ELSE UNCHANGED held
    /\ UNCHANGED <<frames, valve, hx, self, concvars>>

props_Tp(T, p) ==
    LET d == ApplyWrites(props, Region_props_Tp(self, T, p))
    IN  /\ props' = d
        /\ sub' = "-"
        /\ collab' = {}
        /\ Returns("props_Tp", T, p, "-", "record", d)

props_tp(t, p) ==
    LET d == ApplyWrites(props, Region_props_tp(self, t, p))
    IN  /\ props' = d
        /\ sub' = "-"
        /\ collab' = {}
        /\ Returns("props_tp", t, p, "-", "record", d)

props_ph(p, h) ==
    LET d == ApplyWrites(props, Region_props_ph(self, p, h))
    IN  /\ props' = d
        /\ sub' = IF self = "Region2" THEN Region2_T_ph_sub(p, h) ELSE "-"
        /\ collab' = {}
        /\ Returns("props_ph", p, h, "h", "record", d)

props_ps(p, s) ==
    LET d == ApplyWrites(props, Region_props_ps(self, p, s))
    IN  /\ props' = d
        /\ sub' = IF self = "Region2" THEN Region2_T_ps_sub(p, s) ELSE "-"
        /\ collab' = {}
        /\ Returns("props_ps", p, s, "s", "record", d)

callT_ph(p, h) ==
    /\ sub' = IF self = "Region2" THEN Region2_T_ph_sub(p, h) ELSE "-"
    /\ collab' = {}
    /\ Returns("T_ph", p, h, "h", "T", T_ph(self, p, h))
    /\ UNCHANGED props

callT_ps(p, s) ==
    /\ sub' = IF self = "Region2" THEN Region2_T_ps_sub(p, s) ELSE "-"
    /\ collab' = {}
    /\ Returns("T_ps", p, s, "s", "T", T_ps(self, p, s))
    /\ UNCHANGED props

call_get_T_edges(p) ==
    LET e == get_T_edges(self, p)
    IN  /\ sub' = "-"
        /\ collab' = EdgeCalls(self, p)
        /\ IF e.ok
           THEN Returns("_get_T_edges", p, 0, "-", "edges", <<e.lower, e.upper>>)
           ELSE Returns("_get_T_edges", p, 0, "-", "error", "ValueError")
        /\ UNCHANGED props

call_pX_in(p, value, X) ==
    LET r == Region_pX_in(self, props, p, value, X)
    IN  /\ props' = r.props
        /\ sub' = "-"
        /\ collab' = IF r.edges THEN EdgeCalls(self, p) ELSE {}
        /\ IF r.ok
           THEN Returns("_pX_in", p, value, X, "bool", r.val)
           ELSE Returns("_pX_in", p, value, X, "error", "ValueError")

Next ==
    \/ \E T \in Tin(self), p \in Pcalc : props_Tp(T, p)
    \/ \E t \in tin(self), p \in Pcalc : props_tp(t, p)
    \/ \E p \in Pcalc, h \in Hin(self) : props_ph(p, h)
    \/ \E p \in Pcalc, s \in Sin(self) : props_ps(p, s)
    \/ \E p \in Pcalc, h \in Hin(self) : callT_ph(p, h)
    \/ \E p \in Pcalc, s \in Sin(self) : callT_ps(p, s)
    \/ \E p \in Pall : call_get_T_edges(p)
    \/ \E p \in Pall, X \in {"h", "s"} :
         \E value \in Vals(self, X) \cup EdgeVals(self, p, X) : call_pX_in(p, value, X)

Spec == Init /\ [][Next]_vars


\* the same calls at two pressures, made by a caller that keeps one of the
\* records it gets
HeldP == {4000000, 16529164}

InitHeld == InitRegion(KeepNext)

NextHeld ==
    \/ \E T \in Tin(self), p \in HeldP : props_Tp(T, p)
    \/ \E t \in tin(self), p \in HeldP : props_tp(t, p)
    \/ \E p \in HeldP, h \in Hin(self) : props_ph(p, h)
    \/ \E p \in HeldP, s \in Sin(self) : props_ps(p, s)
    \/ \E p \in HeldP, h \in Hin(self) : callT_ph(p, h)
    \/ \E p \in HeldP, s \in Sin(self) : callT_ps(p, s)
    \/ \E p \in HeldP : call_get_T_edges(p)
    \/ \E p \in HeldP, X \in {"h", "s"} :
         \E value \in Vals(self, X) : call_pX_in(p, value, X)

SpecHeld == InitHeld /\ [][NextHeld]_vars
-----------------------------------------------------------------------------
\* Several threads evaluating on the one instance, no lock: a thread's call is
\* its assignments to self.props one at a time, then the copy it returns

\* the pressures the concurrent calls draw from
Pconc == {PGrid[1], PGrid[2]}

ConcCalls(slf) ==
    {[op |-> "props_Tp", a |-> T, b |-> p] : T \in Tin(slf), p \in Pconc}
    \cup {[op |-> "props_ph", a |-> p, b |-> h] : p \in Pconc, h \in Hin(slf)}
    \cup {[op |-> "props_ps", a |-> p, b |-> s] : p \in Pconc, s \in Sin(slf)}

\* the assignments of call c, in order
CallWrites(slf, c) ==
    CASE c.op = "props_Tp" -> Region_props_Tp(slf, c.a, c.b)
      [] c.op = "props_ph" -> Region_props_ph(slf, c.a, c.b)
      [] c.op = "props_ps" -> Region_props_ps(slf, c.a, c.b)
      [] OTHER -> << >>

\* thread t enters its call (T_ph / T_ps read no shared state)
begin(t, c) ==
    /\ pc[t] = 0
    /\ pc' = [pc EXCEPT ![t] = 1]
    /\ call' = [call EXCEPT ![t] = c]
    /\ UNCHANGED <<objvars, self, props, seqvars, tret>>

\* self.props[k] = v, the next assignment of t's call
assign(t) ==
    LET ws == CallWrites(self, call[t])
    IN  /\ pc[t] \in 1..Len(ws)
        /\ props' = Put(props, ws[pc[t]][1], ws[pc[t]][2])
        /\ pc' = [pc EXCEPT ![t] = @ + 1]
        /\ UNCHANGED <<objvars, self, seqvars, call, tret>>

\* return self.props.copy()
copy(t) ==
    /\ pc[t] > 0
    /\ pc[t] = Len(CallWrites(self, call[t])) + 1
    /\ tret' = [tret EXCEPT ![t] = props]
    /\ pc' = [pc EXCEPT ![t] = @ + 1]
    /\ UNCHANGED <<objvars, self, props, seqvars, call>>

returned(t) == pc[t] > 0 /\ pc[t] = Len(CallWrites(self, call[t])) + 2

NextConc ==
    \E t \in Threads :
        \/ \E c \in ConcCalls(self) : begin(t, c)
        \/ assign(t)
        \/ copy(t)

SpecConc == Init /\ [][NextConc]_vars

-----------------------------------------------------------------------------
\* SaturationCurve on its own (dzen/0003/saturationcurve.py).  Its range limits
\* 611.212677 Pa and 647.096 K need more digits than whole Pa and mK: here a
\* temperature (K or C) or pressure (Pa) is <<units, n>>, n in 0 .. 10^9 - 1,
\* standing for units + n * 1e-9.

QLe(a, b) == a[1] < b[1] \/ (a[1] = b[1] /\ a[2] <= b[2])

QAdd(a, b) ==
    IF a[2] + b[2] >= 1000000000
    THEN <<a[1] + b[1] + 1, a[2] + b[2] - 1000000000>>
    ELSE <<a[1] + b[1], a[2] + b[2]>>

\* saturationcurve.py:37-41 on the temperature grid: T |-> p, both as <<units, 1e-9 units>>
psatTab ==
    (<<200, 0>> :> <<0, 351435038>>)
    @@ (<<273, 0>> :> <<604, 582085299>>)
    @@ (<<273, 149999000>> :> <<611, 212633026>>)
    @@ (<<273, 150000000>> :> <<611, 212677444>>)
    @@ (<<273, 150001000>> :> <<611, 212721862>>)
    @@ (<<273, 160000000>> :> <<611, 657000011>>)
    @@ (<<280, 0>> :> <<991, 816355990>>)
    @@ (<<290, 0>> :> <<1919, 933310566>>)
    @@ (<<300, 0>> :> <<3536, 589413013>>)
    @@ (<<310, 0>> :> <<6230, 679248594>>)
    @@ (<<323, 150000000>> :> <<12351, 270434023>>)
    @@ (<<350, 0>> :> <<41681, 800409312>>)
    @@ (<<373, 150000000>> :> <<101417, 977921310>>)
    @@ (<<400, 0>> :> <<245753, 186304083>>)
    @@ (<<423, 150000000>> :> <<476101, 381081492>>)
    @@ (<<450, 0>> :> <<932041, 79135936>>)
    @@ (<<473, 150000000>> :> <<1554671, 868269825>>)
    @@ (<<500, 0>> :> <<2638897, 756273222>>)
    @@ (<<523, 150000000>> :> <<3975939, 70835327>>)
    @@ (<<550, 0>> :> <<6117055, 639659411>>)
    @@ (<<573, 150000000>> :> <<8587708, 329557264>>)
    @@ (<<600, 0>> :> <<12344314, 578376593>>)
    @@ (<<623, 150000000>> :> <<16529164, 252604477>>)
    @@ (<<630, 0>> :> <<17969098, 460753098>>)
    @@ (<<640, 0>> :> <<20265942, 167297564>>)
    @@ (<<647, 0>> :> <<22038291, 942536045>>)
    @@ (<<647, 95999000>> :> <<22063999, 732181225>>)
    @@ (<<647, 96000000>> :> <<22064000, 320570>>)
    @@ (<<647, 96001000>> :> <<22064000, 268459930>>)
    @@ (<<647, 97000000>> :> <<22064268, 143393155>>)
    @@ (<<650, 0>> :> <<23185664, 451797303>>)
    @@ (<<700, 0>> :> <<44670851, 219206030>>)
    @@ (<<1000, 0>> :> <<12676161, 885877687>>)

\* saturationcurve.py:60-65 on the pressure grid and on the pressures psatTab holds: p |-> T
TsatTab ==
    (<<0, 351435038>> :> <<200, 0>>)
    @@ (<<500, 0>> :> <<270, 417534346>>)
    @@ (<<604, 582085299>> :> <<273, 0>>)
    @@ (<<611, 0>> :> <<273, 145211164>>)
    @@ (<<611, 200000000>> :> <<273, 149714585>>)
    @@ (<<611, 212633026>> :> <<273, 149999000>>)
    @@ (<<611, 212676000>> :> <<273, 149999967>>)
    @@ (<<611, 212677000>> :> <<273, 149999990>>)
    @@ (<<611, 212677444>> :> <<273, 150000000>>)
    @@ (<<611, 212678000>> :> <<273, 150000013>>)
    @@ (<<611, 212721862>> :> <<273, 150001000>>)
    @@ (<<611, 213000000>> :> <<273, 150007262>>)
    @@ (<<611, 657000011>> :> <<273, 160000000>>)
    @@ (<<612, 0>> :> <<273, 167715214>>)
    @@ (<<991, 816355990>> :> <<280, 0>>)
    @@ (<<1000, 0>> :> <<280, 119632413>>)
    @@ (<<1919, 933310566>> :> <<290, 0>>)
    @@ (<<2000, 0>> :> <<290, 645256678>>)
    @@ (<<3536, 589000000>> :> <<299, 999998013>>)
    @@ (<<3536, 589413013>> :> <<300, 0>>)
    @@ (<<5000, 0>> :> <<306, 25489524>>)
    @@ (<<6230, 679248594>> :> <<310, 0>>)
    @@ (<<12351, 270434023>> :> <<323, 150000000>>)
    @@ (<<41681, 800409312>> :> <<350, 0>>)
    @@ (<<50000, 0>> :> <<354, 466735997>>)
    @@ (<<100000, 0>> :> <<372, 755918611>>)
    @@ (<<101325, 0>> :> <<373, 124300000>>)
    @@ (<<101417, 977921310>> :> <<373, 150000000>>)
    @@ (<<245753, 186304083>> :> <<400, 0>>)
    @@ (<<476101, 381081492>> :> <<423, 150000000>>)
    @@ (<<500000, 0>> :> <<424, 986243877>>)
    @@ (<<932041, 79135936>> :> <<450, 0>>)
    @@ (<<1000000, 0>> :> <<453, 35632391>>)
    @@ (<<1554671, 868269825>> :> <<473, 150000000>>)
    @@ (<<2000000, 0>> :> <<485, 534535318>>)
    @@ (<<2638897, 756273222>> :> <<500, 0>>)
    @@ (<<3975939, 70835327>> :> <<523, 150000000>>)
    @@ (<<4000000, 0>> :> <<523, 507519124>>)
    @@ (<<6117055, 639659411>> :> <<550, 0>>)
    @@ (<<8000000, 0>> :> <<568, 159121229>>)
    @@ (<<8587708, 329557264>> :> <<573, 150000000>>)
    @@ (<<10000000, 0>> :> <<584, 149487999>>)
    @@ (<<12344314, 578376593>> :> <<600, 0>>)
    @@ (<<12676161, 885877687>> :> <<602, 48371977>>)
    @@ (<<16529164, 252600000>> :> <<623, 150000000>>)
    @@ (<<16529164, 252604477>> :> <<623, 150000000>>)
    @@ (<<17969098, 460753098>> :> <<630, 0>>)
    @@ (<<20000000, 0>> :> <<638, 895911546>>)
    @@ (<<20265942, 167297564>> :> <<640, 0>>)
    @@ (<<22000000, 0>> :> <<646, 856565225>>)
    @@ (<<22038291, 942536045>> :> <<647, 0>>)
    @@ (<<22063999, 732181225>> :> <<647, 95999000>>)
    @@ (<<22063999, 999999000>> :> <<647, 95999999>>)
    @@ (<<22064000, 0>> :> <<647, 95999999>>)
    @@ (<<22064000, 1000>> :> <<647, 95999999>>)
    @@ (<<22064000, 320570>> :> <<647, 96000000>>)
    @@ (<<22064000, 268459930>> :> <<647, 96001000>>)
    @@ (<<22064001, 0>> :> <<647, 96003728>>)
    @@ (<<22064268, 143393155>> :> <<647, 97000000>>)
    @@ (<<23185664, 451797303>> :> <<650, 0>>)
    @@ (<<30000000, 0>> :> <<650, 164862431>>)
    @@ (<<44670851, 219206030>> :> <<650, 170560545>>)
    @@ (<<100000000, 0>> :> <<650, 167322791>>)

SC_TGrid ==
    {<<273, 150000000>>, <<273, 149999000>>, <<273, 150001000>>, <<273, 160000000>>, <<273, 0>>, <<200, 0>>, <<280, 0>>, <<300, 0>>, <<323, 150000000>>, <<373, 150000000>>, <<423, 150000000>>, <<473, 150000000>>, <<523, 150000000>>, <<573, 150000000>>, <<600, 0>>, <<623, 150000000>>, <<640, 0>>, <<647, 0>>, <<647, 95999000>>, <<647, 96000000>>, <<647, 96001000>>, <<647, 97000000>>, <<650, 0>>, <<700, 0>>, <<1000, 0>>, <<290, 0>>, <<310, 0>>, <<350, 0>>, <<400, 0>>, <<450, 0>>, <<500, 0>>, <<550, 0>>, <<630, 0>>}

SC_tGrid ==
    {<<0, 0>>, <<-1, 999999000>>, <<0, 1000>>, <<0, 10000000>>, <<-1, 850000000>>, <<26, 850000000>>, <<50, 0>>, <<100, 0>>, <<200, 0>>, <<350, 0>>, <<373, 945999000>>, <<373, 946000000>>, <<373, 946001000>>, <<373, 947000000>>, <<426, 850000000>>}

SC_pGrid ==
    {<<611, 212677000>>, <<611, 212676000>>, <<611, 212678000>>, <<611, 213000000>>, <<611, 200000000>>, <<611, 0>>, <<500, 0>>, <<612, 0>>, <<1000, 0>>, <<3536, 589000000>>, <<100000, 0>>, <<101325, 0>>, <<1000000, 0>>, <<4000000, 0>>, <<10000000, 0>>, <<16529164, 252600000>>, <<20000000, 0>>, <<22000000, 0>>, <<22063999, 999999000>>, <<22064000, 0>>, <<22064000, 1000>>, <<22064001, 0>>, <<30000000, 0>>, <<100000000, 0>>, <<2000, 0>>, <<5000, 0>>, <<50000, 0>>, <<500000, 0>>, <<2000000, 0>>, <<8000000, 0>>}

\* fault injection: SaturationCurve.p_T with T < 647.096 for T <= 647.096
SaturationCurve_p_T_lt(T) ==
    IF ~(QLe(<<273, 150000000>>, T) /\ QLe(T, <<647, 96000000>>) /\ T # <<647, 96000000>>)
    THEN [ok |-> FALSE, val |-> <<0, 0>>]
    ELSE [ok |-> TRUE, val |-> psatTab[T]]

\* fault injection: SaturationCurve.p_T with the upper limit 1073.15 (T_max of the regions)
SaturationCurve_p_T_hi(T) ==
    IF ~(QLe(<<273, 150000000>>, T) /\ QLe(T, <<1073, 150000000>>))
    THEN [ok |-> FALSE, val |-> <<0, 0>>]
    ELSE [ok |-> TRUE, val |-> psatTab[T]]

\* SaturationCurve.p_T: ok is FALSE for the ValueError
SaturationCurve_p_T(T) ==
    IF ~(QLe(<<273, 150000000>>, T) /\ QLe(T, <<647, 96000000>>))
    THEN [ok |-> FALSE, val |-> <<0, 0>>]
    ELSE [ok |-> TRUE, val |-> psatTab[T]]

\* SaturationCurve.p_t
SaturationCurve_p_t(t) == SaturationCurve_p_T(QAdd(t, <<273, 150000000>>))

\* fault injection: SaturationCurve.T_p with the lower limit 611.213 of version 1.0
SaturationCurve_T_p_v10(p) ==
    IF ~(QLe(<<611, 213000000>>, p) /\ QLe(p, <<22064000, 0>>))
    THEN [ok |-> FALSE, val |-> <<0, 0>>]
    ELSE [ok |-> TRUE, val |-> TsatTab[p]]

\* SaturationCurve.T_p: ok is FALSE for the ValueError
SaturationCurve_T_p(p) ==
    IF ~(QLe(<<611, 212677000>>, p) /\ QLe(p, <<22064000, 0>>))
    THEN [ok |-> FALSE, val |-> <<0, 0>>]
    ELSE [ok |-> TRUE, val |-> TsatTab[p]]

InitSC ==
    /\ self = "SaturationCurve"
    /\ props = << >>
    /\ last = [op |-> "__init__", a |-> <<0, 0>>, b |-> 0, X |-> "-"]
    /\ ret = [kind |-> "none", val |-> 0]
    /\ sub = "-"
    /\ collab = {}
    /\ pc = [t \in Threads |-> 0]
    /\ call = [t \in Threads |-> NoCall]
    /\ tret = [t \in Threads |-> << >>]
    /\ held = NoHold
    /\ frames = << >>
    /\ valve = << >>
    /\ hx = << >>

\* a call of the curve that leaves r
ReturnsSC(op, a, r) ==
    /\ last' = [op |-> op, a |-> a, b |-> 0, X |-> "-"]
    /\ ret' = IF r.ok THEN [kind |-> "value", val |-> r.val]
              ELSE [kind |-> "error", val |-> "ValueError"]
    /\ UNCHANGED <<objvars, self, props, sub, collab, concvars>>

call_sc_p_T(T) == ReturnsSC("p_T", T, SaturationCurve_p_T(T))

call_sc_p_t(t) == ReturnsSC("p_t", t, SaturationCurve_p_t(t))

call_sc_T_p(p) == ReturnsSC("T_p", p, SaturationCurve_T_p(p))

\* sc.T_p(sc.p_T(T)): an error of either call ends it
call_sc_T_p_p_T(T) ==
    LET r == SaturationCurve_p_T(T)
    IN  ReturnsSC("T_p(p_T)", T, IF r.ok THEN SaturationCurve_T_p(r.val) ELSE r)

NextSC ==
    \/ \E T \in SC_TGrid : call_sc_p_T(T)
    \/ \E t \in SC_tGrid : call_sc_p_t(t)
    \/ \E p \in SC_pGrid : call_sc_T_p(p)
    \/ \E T \in SC_TGrid : call_sc_T_p_p_T(T)

SpecSC == InitSC /\ [][NextSC]_vars

-----------------------------------------------------------------------------
\* Forward evaluation followed by the backward one, on one instance:
\* T_ph(p, props_Tp(T, p)['h']) and T_ps(p, props_Tp(T, p)['s'])

\* the temperatures the round trips start from
Trt(slf) ==
    IF slf = "Region1"
    THEN {300000, 373150, 423150, 473150, 523150, 600000}
    ELSE {550000, 650000, 700000, 773150, 900000, 1000000}

\* (T, p) lies in the region: p passes p_in and T is between the edges at p
InRegion(slf, T, p) ==
    /\ ParamsIn_p_in(p)
    /\ LET e == get_T_edges(slf, p)
       IN  e.ok /\ e.lower <= T /\ T <= e.upper

\* fault injection: the backward temperature returned in Celsius
BackwardOf_C(slf, d, p, X) ==
    (IF X = "h" THEN T_ph(slf, p, d["h"]) ELSE T_ps(slf, p, d["s"])) - 273150

\* self.T_ph(p, d['h']) or self.T_ps(p, d['s']) for a record d
BackwardOf(slf, d, p, X) ==
    IF X = "h" THEN T_ph(slf, p, d["h"]) ELSE T_ps(slf, p, d["s"])

roundtrip(T, p, X) ==
    LET d == ApplyWrites(props, Region_props_Tp(self, T, p))
    IN  /\ InRegion(self, T, p)
        /\ props' = d
        /\ sub' = IF self = "Region1" THEN "-"
                  ELSE IF X = "h" THEN Region2_T_ph_sub(p, d["h"])
                  ELSE Region2_T_ps_sub(p, d["s"])
        /\ collab' = {}
        /\ Returns(IF X = "h" THEN "T_ph(props_Tp)" ELSE "T_ps(props_Tp)",
                   T, p, X, "T", BackwardOf(self, d, p, X))

NextRT ==
    \/ \E T \in Trt(self), p \in Pcalc : InRegion(self, T, p) /\ props_Tp(T, p)
    \/ \E T \in Trt(self), p \in Pcalc, X \in {"h", "s"} : roundtrip(T, p, X)

SpecRT == Init /\ [][NextRT]_vars


-----------------------------------------------------------------------------
(***************************************************************************)
(* hydrcalc: the resistance coefficient of an elbow from the volume flow.  *)
(* Flows Q are in 1e-3 m3/h, velocities w in mm/s, diameters D in mm,      *)
(* angles in degrees, coefficients in 1e-6.  RD, Delta, kvisc and quadr    *)
(* keep their defaults (1.5, 0, 1e-06, False); no branch of elb_calc_grc   *)
(* depends on them.                                                        *)
(***************************************************************************)

\* How deep the interpreter lets calls nest (sys.getrecursionlimit())
RecursionLimit == 6

\* The flows, diameters and angles the calls draw from
ElbQ == {10000, 50000, 100000}
ElbD == {0, 50, 100, 200, 3000}
ElbDeg == {45, 90}

\* calc_w(Q, D): ValueError for a diameter above 2 m, else Q / calc_F(D) / 3600
\* with calc_F(D) = pi * D * D / 4, which divides by zero for D = 0
calc_w(Q, D) ==
    IF D > 2000 THEN [ok |-> FALSE, val |-> "ValueError"]
    ELSE IF D = 0 THEN [ok |-> FALSE, val |-> "ZeroDivisionError"]
    ELSE [ok |-> TRUE, val |-> (((Q * 1000) \div (D * D)) * 1000) \div 2827]

\* elb_calc_grc_w(w, D, deg), frc + lrc, as the source evaluates it
ElbGrcTab ==
       <<1414, 50, 45>> :> [ok |-> TRUE, val |-> 167980]
    @@ <<1414, 50, 90>> :> [ok |-> TRUE, val |-> 287781]
    @@ <<353, 100, 45>> :> [ok |-> FALSE, val |-> 0]
    @@ <<353, 100, 90>> :> [ok |-> FALSE, val |-> 0]
    @@ <<88, 200, 45>> :> [ok |-> FALSE, val |-> 0]
    @@ <<88, 200, 90>> :> [ok |-> FALSE, val |-> 0]
    @@ <<7074, 50, 45>> :> [ok |-> TRUE, val |-> 118907]
    @@ <<7074, 50, 90>> :> [ok |-> TRUE, val |-> 203814]
    @@ <<1768, 100, 45>> :> [ok |-> TRUE, val |-> 128495]
    @@ <<1768, 100, 90>> :> [ok |-> TRUE, val |-> 220603]
    @@ <<442, 200, 45>> :> [ok |-> TRUE, val |-> 159653]
    @@ <<442, 200, 90>> :> [ok |-> TRUE, val |-> 273531]
    @@ <<14149, 50, 45>> :> [ok |-> TRUE, val |-> 116909]
    @@ <<14149, 50, 90>> :> [ok |-> TRUE, val |-> 199818]
    @@ <<3537, 100, 45>> :> [ok |-> TRUE, val |-> 118907]
    @@ <<3537, 100, 90>> :> [ok |-> TRUE, val |-> 203814]
    @@ <<884, 200, 45>> :> [ok |-> TRUE, val |-> 128495]
    @@ <<884, 200, 90>> :> [ok |-> TRUE, val |-> 220603]

elb_calc_grc_w(w, D, deg) == ElbGrcTab[<<w, D, deg>>]

\* a caller invokes elb_calc_grc(Q, D, deg): its frame is entered
elb_calc_grc(Q, D, deg) ==
    /\ frames = << >>
    /\ frames' = <<[fn |-> "elb_calc_grc", a |-> Q, D |-> D, deg |-> deg]>>
    /\ last' = [op |-> "elb_calc_grc", a |-> Q, b |-> <<D, deg>>, X |-> "-"]
    /\ ret' = [kind |-> "running", val |-> 0]
    /\ UNCHANGED <<self, props, sub, collab, concvars, valve, hx, held>>

\* the body of the innermost frame runs: w = calc_w(Q, D), then the call
\* elb_calc_grc(w, D, deg, RD, Delta, kvisc, quadr) of the return statement.
\* No frame handles an exception, so one unwinds the whole stack.  The
\* return statement completes only when the call in it returns, and that
\* call runs this same body.
elb_calc_grc_body ==
    /\ frames # << >>
    /\ LET top == frames[Len(frames)]
           w == calc_w(top.a, top.D)
       IN  IF ~w.ok
           THEN /\ frames' = << >>
                /\ ret' = [kind |-> "error", val |-> w.val]
           ELSE IF Len(frames) >= RecursionLimit
           THEN /\ frames' = << >>
                /\ ret' = [kind |-> "error", val |-> "RecursionError"]
           ELSE /\ frames' = Append(frames, [fn |-> "elb_calc_grc",
                                  a |-> w.val, D |-> top.D, deg |-> top.deg])
                /\ ret' = ret
    /\ UNCHANGED <<self, props, last, sub, collab, concvars, valve, hx, held>>

InitElb ==
    /\ self = "hydrcalc"
    /\ props = << >>
    /\ last = [op |-> "import", a |-> 0, b |-> <<0, 0>>, X |-> "-"]
    /\ ret = [kind |-> "none", val |-> 0]
    /\ sub = "-"
    /\ collab = {}
    /\ pc = [t \in Threads |-> 0]
    /\ call = [t \in Threads |-> NoCall]
    /\ tret = [t \in Threads |-> << >>]
    /\ held = NoHold
    /\ frames = << >>
    /\ valve = << >>
    /\ hx = << >>

NextElb ==
    \/ \E Q \in ElbQ, D \in ElbD, deg \in ElbDeg : elb_calc_grc(Q, D, deg)
    \/ elb_calc_grc_body

SpecElb == InitElb /\ [][NextElb]_vars

-----------------------------------------------------------------------------
(***************************************************************************)
(* ControlValve: a control valve with a linear (fc_type 0), an equal-      *)
(* percentage (1) or a parabolic (2) flow characteristic.  Stem positions  *)
(* h, the relative initial capacity F0 and capacity ratios are in 1e-4,    *)
(* capacities Kv, Kvs, Kv0 and flows Q in 1e-4 m3/h, the resistance R in   *)
(* Pa*h^2/m^6, pressure drops in Pa, the valve authority m in 1e-4.  The   *)
(* density keeps its default 998.2 kg/m3.  The                             *)
(* exponent n = log(1 / F0) of the equal-percentage characteristic is a    *)
(* function of F0 and is carried by the tables below, which hold what      *)
(* Kv_ep_flow_char and the fc_type 1 branch of h_from_Kv evaluate to.      *)
(***************************************************************************)

Kv_epTab ==
       <<10000, 400, 10000>> :> 10000
    @@ <<10000, 3600, 10000>> :> 10000
    @@ <<100000, 400, 0>> :> 4000
    @@ <<100000, 400, 2500>> :> 8944
    @@ <<100000, 400, 5000>> :> 20000
    @@ <<100000, 400, 7500>> :> 44721
    @@ <<100000, 400, 10000>> :> 100000
    @@ <<100000, 3600, 0>> :> 36000
    @@ <<100000, 3600, 2500>> :> 46476
    @@ <<100000, 3600, 5000>> :> 60000
    @@ <<100000, 3600, 7500>> :> 77460
    @@ <<100000, 3600, 10000>> :> 100000

h_epTab ==
       <<100000, 400, 4000>> :> 0
    @@ <<100000, 400, 8944>> :> 2500
    @@ <<100000, 400, 20000>> :> 5000
    @@ <<100000, 400, 44721>> :> 7500
    @@ <<100000, 400, 100000>> :> 10000
    @@ <<100000, 3600, 36000>> :> 0
    @@ <<100000, 3600, 46476>> :> 2500
    @@ <<100000, 3600, 60000>> :> 5000
    @@ <<100000, 3600, 77460>> :> 7500
    @@ <<100000, 3600, 100000>> :> 10000

\* math.sqrt on 1e-8 fixed point: the largest r with r * r <= x
RECURSIVE SqrtIter(_, _, _)
SqrtIter(x, lo, hi) ==
    IF lo >= hi THEN lo
    ELSE LET mid == (lo + hi + 1) \div 2
         IN  IF mid * mid <= x THEN SqrtIter(x, mid, hi)
             ELSE SqrtIter(x, lo, mid - 1)

ISqrt(x) == SqrtIter(x, 0, 40000)

\* Kvs * (F0 + (1 - F0) * h)
Kv_lin_flow_char(Kvs, F0, h) ==
    (Kvs * (F0 + ((10000 - F0) * h) \div 10000)) \div 10000

\* Kvs * F0 ** (1 - h)
Kv_ep_flow_char(Kvs, F0, h) == Kv_epTab[<<Kvs, F0, h>>]

\* Kvs * (F0 + (1 - F0) * h * h)
Kv_par_flow_char(Kvs, F0, h) ==
    (Kvs * (F0 + ((10000 - F0) * ((h * h) \div 10000)) \div 10000)) \div 10000

\* self.__flow_char(h): the characteristic __init__ bound for self.fc_type
ControlValve_flow_char(o, h) ==
    CASE o.fc_type = 0 -> Kv_lin_flow_char(o.Kvs, o.F0, h)
      [] o.fc_type = 1 -> Kv_ep_flow_char(o.Kvs, o.F0, h)
      [] o.fc_type = 2 -> Kv_par_flow_char(o.Kvs, o.F0, h)

\* Kv2R(Kv, density): 100 * density / Kv / Kv.  For a Python float Kv = 0.
\* the division raises ZeroDivisionError and the string is returned; for a
\* numpy.float64 Kv = 0. (np TRUE) the division gives inf and no exception.
Kv2R_of(Kv, np) ==
    IF Kv = 0 THEN [kind |-> IF np THEN "inf" ELSE "str", val |-> 0]
    ELSE [kind |-> "num",
          val |-> ((998200000 \div Kv) * 1000) \div (Kv \div 10)]

Kv2R(Kv) == Kv2R_of(Kv, FALSE)

\* the assignments of set_h(h) once h has passed its check, for h a Python
\* float (np FALSE) or a numpy.float64 (np TRUE)
ControlValve_set_h_of(o, h, np) ==
    [o EXCEPT !.h = h,
              !.Kv = ControlValve_flow_char(o, h),
              !.R = Kv2R_of(ControlValve_flow_char(o, h), np)]

ControlValve_set_h(o, h) == ControlValve_set_h_of(o, h, FALSE)

\* ControlValve(Kv, fc_type, F0, h) for arguments __init__ accepts
ControlValve_init(Kv, fc_type, F0, h) ==
    LET o0 == [fc_type |-> fc_type, F0 |-> F0, h_init |-> h, Kvs |-> 10000,
               Kv0 |-> 0, h |-> 0, Kv |-> 0, R |-> [kind |-> "num", val |-> 0]]
        Kvs == (Kv * 10000) \div ControlValve_flow_char(o0, h)
        o1 == [o0 EXCEPT !.Kvs = Kvs, !.Kv0 = (F0 * Kvs) \div 10000]
    IN  ControlValve_set_h(o1, h)

\* h_from_Kv(Kv)
ControlValve_h_from_Kv(o, Kv) ==
    IF ~(o.Kv0 <= Kv /\ Kv <= o.Kvs)
    THEN [ok |-> FALSE, val |-> "ValueError"]
    ELSE [ok |-> TRUE, val |->
          CASE o.fc_type = 0 ->
                 (((Kv * 10000) \div o.Kvs - o.F0) * 10000) \div (10000 - o.F0)
            [] o.fc_type = 1 -> h_epTab[<<o.Kvs, o.F0, Kv>>]
            [] o.fc_type = 2 ->
                 (ISqrt(((Kv * 10000) \div o.Kvs - o.F0) * 10000) * 10000)
                     \div (10000 - o.F0)]

\* dp_from_Q(Q) at capacity Kv: Q * Q / Kv / Kv * density / 1000. * 1e5.
\* Kv = 0 raises ZeroDivisionError for Python floats and gives nan (Q = 0)
\* or inf for numpy.float64
ControlValve_dp_from_Q(Kv, Q, np) ==
    IF Kv = 0
    THEN IF np THEN [kind |-> IF Q = 0 THEN "nan" ELSE "inf", val |-> 0]
         ELSE [kind |-> "ZeroDivisionError", val |-> 0]
    ELSE LET r == ((Q * 1000) \div Kv) * 10
         IN  [kind |-> "num", val |-> (((r * r) \div 10000) * 9982) \div 1000]

\* fault injection: the stem positions of the loop as Python floats
get_char_set_h_py(o, h) == ControlValve_set_h_of(o, h, FALSE)

\* self.set_h(h) in the loop of get_char: h is an element of np.linspace
get_char_set_h(o, h) == ControlValve_set_h_of(o, h, TRUE)

\* the loop of get_char from index i on: for each h of hs, set_h(h),
\* Qs[i] = sqrt(dp / (R_other + self.R)), ms[i] = dp_from_Q(Qs[i]) / dp.
\* R_other + self.R raises TypeError when self.R is the string.
RECURSIVE get_char_loop(_, _, _, _, _, _, _)
get_char_loop(o, dp, R_other, hs, i, Qs, ms) ==
    IF i > Len(hs) THEN [ok |-> TRUE, o |-> o, Qs |-> Qs, ms |-> ms]
    ELSE LET o1 == get_char_set_h(o, hs[i])
         IN  IF o1.R.kind = "str"
             THEN [ok |-> FALSE, o |-> o1, Qs |-> Qs, ms |-> ms]
             ELSE LET Q == IF o1.R.kind = "inf" THEN 0
                           ELSE ISqrt(((dp * 1000) \div (R_other + o1.R.val))
                                          * 1000) * 10
                      dp_cv == ControlValve_dp_from_Q(o1.Kv, Q, TRUE)
                      mi == IF dp_cv.kind = "num"
                            THEN [kind |-> "num",
                                  val |-> ((dp_cv.val * 1000) \div dp) * 10]
                            ELSE dp_cv
                  IN  get_char_loop(o1, dp, R_other, hs, i + 1,
                                    Append(Qs, Q), Append(ms, mi))

\* np.linspace(0., 1, n)
linspace01(n) == [i \in 1..n |-> (10000 * (i - 1)) \div (n - 1)]

\* get_char(Q, m, h, n): where it exits, the valve it leaves and its result
ControlValve_get_char(o, Q, m, h, n) ==
    IF ~(0 <= h /\ h <= 10000)
    THEN [kind |-> "error", val |-> "ValueError", o |-> o]
    ELSE LET h_cur == o.h
             o1 == ControlValve_set_h(o, h)
             dp_cv == ControlValve_dp_from_Q(o1.Kv, Q, FALSE)
         IN  IF dp_cv.kind # "num" \/ m = 0 \/ Q = 0
             THEN [kind |-> "error", val |-> "ZeroDivisionError", o |-> o1]
             ELSE LET dp == ((dp_cv.val * 100) \div m) * 100
                      dp_other == dp - dp_cv.val
                      R_other == (((dp_other * 1000) \div Q) * 100000) \div Q
                      hs == linspace01(n)
                      l == get_char_loop(o1, dp, R_other, hs, 1, << >>, << >>)
                  IN  IF ~l.ok
                      THEN [kind |-> "error", val |-> "TypeError", o |-> l.o]
                      ELSE [kind |-> "arrays", val |-> <<hs, l.Qs, l.ms>>,
                            o |-> ControlValve_set_h(l.o, h_cur)]

\* The types, initial capacities and stem positions the calls draw from
CV_fc_type == {0, 1, 2}
CV_F0 == {0, 400, 3600}
CV_h01 == {0, 2500, 5000, 7500, 10000}
CV_h == CV_h01 \cup {-2500, 12500}
\* capacities of the valve's own characteristic, and one beyond either end
CV_Kv(o) ==
    {ControlValve_flow_char(o, h) : h \in CV_h01}
        \cup {o.Kv0 - 1000, o.Kvs + 1000}

\* The flows, authorities, stem positions and lengths of get_char
CV_Q == {0, 50000}
CV_m == {0, 5000, 10000}
CV_h_char == {5000, 10000, 12500}
CV_n == {2, 3, 5}

\* a valve of 10 m3/h at h = 1, of any type with an F0 __init__ accepts
InitCV ==
    /\ self = "ControlValve"
    /\ props = << >>
    /\ last = [op |-> "__init__", a |-> 0, b |-> 0, X |-> "-"]
    /\ ret = [kind |-> "none", val |-> 0]
    /\ sub = "-"
    /\ collab = {}
    /\ pc = [t \in Threads |-> 0]
    /\ call = [t \in Threads |-> NoCall]
    /\ tret = [t \in Threads |-> << >>]
    /\ held = NoHold
    /\ frames = << >>
    /\ hx = << >>
    /\ \E fc \in CV_fc_type, F0 \in CV_F0 :
          /\ ~(fc = 1 /\ F0 = 0)
          /\ valve = ControlValve_init(100000, fc, F0, 10000)

\* a call of the valve that leaves kind, val
ReturnsCV(op, a, kind, val) ==
    /\ last' = [op |-> op, a |-> a, b |-> 0, X |-> "-"]
    /\ ret' = [kind |-> kind, val |-> val]
    /\ UNCHANGED <<self, props, sub, collab, concvars, frames, hx, held>>

\* valve.set_h(h)
call_set_h(h) ==
    IF ~(0 <= h /\ h <= 10000)
    THEN /\ valve' = valve
         /\ ReturnsCV("set_h", h, "error", "ValueError")
    ELSE /\ valve' = ControlValve_set_h(valve, h)
         /\ ReturnsCV("set_h", h, "none", 0)

\* valve.get_Kv()
call_get_Kv ==
    /\ valve' = valve
    /\ ReturnsCV("get_Kv", 0, "value", valve.Kv)

\* valve.h_from_Kv(Kv)
call_h_from_Kv(Kv) ==
    LET r == ControlValve_h_from_Kv(valve, Kv)
    IN  /\ valve' = valve
        /\ ReturnsCV("h_from_Kv", Kv, IF r.ok THEN "value" ELSE "error", r.val)

\* valve.set_h(valve.h_from_Kv(Kv)); valve.get_Kv()
call_get_Kv_set_h_h_from_Kv(Kv) ==
    LET r == ControlValve_h_from_Kv(valve, Kv)
    IN  IF ~r.ok
        THEN /\ valve' = valve
             /\ ReturnsCV("get_Kv(set_h(h_from_Kv))", Kv, "error", r.val)
        ELSE IF ~(0 <= r.val /\ r.val <= 10000)
        THEN /\ valve' = valve
             /\ ReturnsCV("get_Kv(set_h(h_from_Kv))", Kv, "error", "ValueError")
        ELSE /\ valve' = ControlValve_set_h(valve, r.val)
             /\ ReturnsCV("get_Kv(set_h(h_from_Kv))", Kv, "value",
                          ControlValve_set_h(valve, r.val).Kv)

\* valve.h_from_Kv(Kv) for Kv the flow characteristic at h
call_h_from_Kv_flow_char(h) ==
    LET r == ControlValve_h_from_Kv(valve, ControlValve_flow_char(valve, h))
    IN  /\ valve' = valve
        /\ ReturnsCV("h_from_Kv(flow_char)", h,
                     IF r.ok THEN "value" ELSE "error", r.val)

\* valve.get_char(Q, m, h, n); last.b keeps h, Kv and R as they were at entry
call_get_char(Q, m, h, n) ==
    LET r == ControlValve_get_char(valve, Q, m, h, n)
    IN  /\ valve' = r.o
        /\ last' = [op |-> "get_char", a |-> <<Q, m, h, n>>,
                    b |-> [h |-> valve.h, Kv |-> valve.Kv, R |-> valve.R],
                    X |-> "-"]
        /\ ret' = [kind |-> r.kind, val |-> r.val]
        /\ UNCHANGED <<self, props, sub, collab, concvars, frames, hx, held>>

NextCV ==
    \/ \E h \in CV_h : call_set_h(h)
    \/ call_get_Kv
    \/ \E Kv \in CV_Kv(valve) : call_h_from_Kv(Kv)
    \/ \E Kv \in CV_Kv(valve) : call_get_Kv_set_h_h_from_Kv(Kv)
    \/ \E h \in CV_h01 : call_h_from_Kv_flow_char(h)
    \/ \E Q \in CV_Q, m \in CV_m, h \in CV_h_char, n \in CV_n :
          call_get_char(Q, m, h, n)

SpecCV == InitCV /\ [][NextCV]_vars

-----------------------------------------------------------------------------
(***************************************************************************)
(* HeatExchanger: the rating calculation of a counter-flow ('cf') or       *)
(* direct-flow ('df') heat exchanger.  Temperatures, capacity rates and    *)
(* powers are in 1e-2 of their unit (C, W/K, W), the efficiency in         *)
(* percent, the factor of kFTab in 1e-4.  LmtdTab holds                    *)
(* (dt_h - dt_t) / log(dt_h / dt_t) of calc_dt and kFTab the factor        *)
(* 2 * (a * b) ** 0.8 / (a ** 0.8 + b ** 0.8) of __calc_kF, as the source  *)
(* evaluates them; HX_roots holds points at which the source's __f         *)
(* vanishes with the inlet temperatures and capacity rates held.           *)
(*                                                                         *)
(* scipy.optimize.root is a library: it evaluates self.__f, first at       *)
(* init_guess, then at points of its choosing, and returns either failure  *)
(* or success at a point where the residual vanishes.                      *)
(***************************************************************************)

LmtdTab ==
       <<-70000, -78000>> :> [ok |-> TRUE, val |-> -73928]
    @@ <<4253, 4337>> :> [ok |-> TRUE, val |-> 4295]
    @@ <<4600, 4000>> :> [ok |-> TRUE, val |-> 4293]
    @@ <<4900, 3500>> :> [ok |-> TRUE, val |-> 4161]
    @@ <<5253, 4337>> :> [ok |-> TRUE, val |-> 4780]
    @@ <<5261, 4348>> :> [ok |-> TRUE, val |-> 4790]
    @@ <<5600, 4000>> :> [ok |-> TRUE, val |-> 4755]
    @@ <<5900, 3500>> :> [ok |-> TRUE, val |-> 4596]
    @@ <<7000, 1400>> :> [ok |-> TRUE, val |-> 3479]
    @@ <<7000, 1600>> :> [ok |-> TRUE, val |-> 3659]
    @@ <<7000, 1609>> :> [ok |-> TRUE, val |-> 3667]
    @@ <<8000, 1400>> :> [ok |-> TRUE, val |-> 3787]
    @@ <<8000, 1600>> :> [ok |-> TRUE, val |-> 3977]
    @@ <<8000, 1609>> :> [ok |-> TRUE, val |-> 3985]

kFTab ==
       <<80000, 100000, 80000, 80000>> :> 9110
    @@ <<80000, 100000, 80000, 100000>> :> 10000

HX_roots ==
       "cf" :> {<<10000, 6337, 2000, 4747, 80000, 80000, 2197838>>, <<9000, 5500, 2000, 4100, 80000, 100000, 2100000>>}
    @@ "df" :> {<<10000, 6348, 2000, 4739, 80000, 80000, 2191083>>, <<9000, 5500, 2000, 4100, 80000, 100000, 2100000>>}

\* the unknowns of __f, by index
HX_KEYS ==
    <<"t_hot_in", "t_hot_out", "t_cold_in", "t_cold_out",
      "C_hot", "C_cold", "Q_cold">>

\* calc_dt(t_hot_in, t_hot_out, t_cold_in, t_cold_out, hetype)
calc_dt(t_hot_in, t_hot_out, t_cold_in, t_cold_out, hetype) ==
    IF hetype \notin {"cf", "df"} THEN [ok |-> FALSE, val |-> "ValueError"]
    ELSE LET dt_h == IF hetype = "cf" THEN t_hot_in - t_cold_out
                     ELSE t_hot_in - t_cold_in
             dt_t == IF hetype = "cf" THEN t_hot_out - t_cold_in
                     ELSE t_hot_out - t_cold_out
         IN  IF dt_h = dt_t THEN [ok |-> TRUE, val |-> dt_h]
             ELSE LmtdTab[<<dt_h, dt_t>>]

\* HeatExchanger(t_hot_in, t_hot_out, t_cold_in, t_cold_out, Q_cold, eff, hetype)
HeatExchanger_init(t_hot_in, t_hot_out, t_cold_in, t_cold_out, Q_cold, eff, hetype) ==
    LET C_hot == (((Q_cold * 100) \div eff) * 100) \div (t_hot_in - t_hot_out)
        C_cold == (Q_cold * 100) \div (t_cold_out - t_cold_in)
        dt == calc_dt(t_hot_in, t_hot_out, t_cold_in, t_cold_out, hetype).val
        design == [t_hot_in |-> t_hot_in, t_hot_out |-> t_hot_out,
                   t_cold_in |-> t_cold_in, t_cold_out |-> t_cold_out,
                   C_hot |-> C_hot, C_cold |-> C_cold, Q_cold |-> Q_cold,
                   Q_hot |-> (Q_cold * 100) \div eff, dt |-> dt, eff |-> eff,
                   kF |-> (Q_cold * 100) \div dt]
    IN  [hetype |-> hetype, design |-> design,
         init_guess |-> <<t_hot_in, t_hot_out, t_cold_in, t_cold_out,
                          C_hot, C_cold, Q_cold>>,
         res |-> << >>, params |-> << >>,
         solving |-> FALSE, evals |-> 0, xin |-> << >>, x |-> << >>, y |-> << >>]

\* __calc_kF(C_hot, C_cold)
HeatExchanger_calc_kF(o, C_hot, C_cold) ==
    (o.design.kF
        * kFTab[<<o.design.C_hot, o.design.C_cold, C_hot, C_cold>>]) \div 10000

\* the first loop of __f: for i, key in enumerate(self.params), a value that
\* is not None is stored in x[i]
HeatExchanger_f_x(o, x) ==
    [i \in 1..7 |-> IF i <= Len(o.params) /\ o.params[i].given
                    THEN o.params[i].val ELSE x[i]]

\* __f(x): the vector x as the loop leaves it and the residuals y, or the
\* exception of calc_dt
HeatExchanger_f(o, x0) ==
    LET x == HeatExchanger_f_x(o, x0)
        dt == calc_dt(x[1], x[2], x[3], x[4], o.hetype)
        kF == HeatExchanger_calc_kF(o, x[5], x[6])
        y0 == x[7] - ((kF \div 10) * dt.val) \div 10
        y1 == x[7] - (x[6] * (x[4] - x[3])) \div 100
        y2 == x[7] - (((x[5] * (x[1] - x[2])) \div 100) * o.design.eff) \div 100
    IN  IF ~dt.ok THEN [ok |-> FALSE, val |-> dt.val, x |-> x, y |-> << >>]
        ELSE [ok |-> TRUE, val |-> 0, x |-> x,
              y |-> <<y0, y1, y2, y1, y2, y1, y0>>]

\* get_inp_params(des): the dict in its key order, None as given = FALSE
HeatExchanger_get_inp_params(o, des) ==
    [i \in 1..7 |-> [key |-> HX_KEYS[i], given |-> des,
                     val |-> IF des THEN o.design[HX_KEYS[i]] ELSE 0]]

\* params with params[key] = val
HX_set(params, key, val) ==
    [i \in 1..Len(params) |->
        IF params[i].key = key THEN [key |-> key, given |-> TRUE, val |-> val]
        ELSE params[i]]

\* the same dict with its keys inserted in the order of the sequence order
HX_reorder(params, order) ==
    [i \in 1..Len(order) |->
        (CHOOSE e \in {params[j] : j \in 1..Len(params)} : e.key = order[i])]

\* The dicts calc is called with: the design values, nothing given, the
\* inlet temperatures and capacity rates given (at design, with a lower
\* C_cold, with a lower t_hot_in), and the lower C_cold with the given
\* keys inserted first
HX_inlets(o) ==
    LET p0 == HeatExchanger_get_inp_params(o, FALSE)
        p1 == HX_set(p0, "t_hot_in", o.design.t_hot_in)
        p2 == HX_set(p1, "t_cold_in", o.design.t_cold_in)
        p3 == HX_set(p2, "C_hot", o.design.C_hot)
    IN  HX_set(p3, "C_cold", o.design.C_cold)

HX_given_first ==
    <<"t_hot_in", "t_cold_in", "C_hot", "C_cold",
      "t_hot_out", "t_cold_out", "Q_cold">>

HX_params(o) ==
    { HeatExchanger_get_inp_params(o, TRUE),
      HeatExchanger_get_inp_params(o, FALSE),
      HX_inlets(o),
      HX_set(HX_inlets(o), "C_cold", 80000),
      HX_set(HX_inlets(o), "t_hot_in", 9000),
      HX_reorder(HX_set(HX_inlets(o), "C_cold", 80000), HX_given_first) }

\* the points root evaluates __f at
HX_X(o) == {o.init_guess} \cup HX_roots[o.hetype]

\* a design of 100 -> 60 C hot, 20 -> 44 C cold, 24 kW, eff 0.75
InitHX ==
    /\ self = "HeatExchanger"
    /\ props = << >>
    /\ last = [op |-> "__init__", a |-> 0, b |-> 0, X |-> "-"]
    /\ ret = [kind |-> "none", val |-> 0]
    /\ sub = "-"
    /\ collab = {}
    /\ pc = [t \in Threads |-> 0]
    /\ call = [t \in Threads |-> NoCall]
    /\ tret = [t \in Threads |-> << >>]
    /\ held = NoHold
    /\ frames = << >>
    /\ valve = << >>
    /\ \E hetype \in {"cf", "df"} :
          hx = HeatExchanger_init(10000, 6000, 2000, 4400, 2400000, 75, hetype)

HXframe == UNCHANGED <<self, props, sub, collab, concvars, frames, valve, held>>

\* he.get_inp_params(des)
call_get_inp_params(des) ==
    /\ ~hx.solving
    /\ hx' = hx
    /\ last' = [op |-> "get_inp_params", a |-> des, b |-> 0, X |-> "-"]
    /\ ret' = [kind |-> "params", val |-> HeatExchanger_get_inp_params(hx, des)]
    /\ HXframe

\* he.calc(params) up to its call of root
calc(params) ==
    /\ ~hx.solving
    /\ hx' = [hx EXCEPT !.params = params, !.solving = TRUE, !.evals = 0]
    /\ last' = [op |-> "calc", a |-> params, b |-> 0, X |-> "-"]
    /\ ret' = [kind |-> "running", val |-> 0]
    /\ HXframe

\* root evaluates self.__f(x); an exception of __f ends calc
root_f(x) ==
    /\ hx.solving
    /\ hx.evals = 0 => x = hx.init_guess
    /\ LET r == HeatExchanger_f(hx, x)
       IN  IF r.ok
           THEN /\ hx' = [hx EXCEPT !.evals = 1, !.xin = x, !.x = r.x, !.y = r.y]
                /\ ret' = ret
           ELSE /\ hx' = [hx EXCEPT !.solving = FALSE, !.xin = x, !.x = r.x]
                /\ ret' = [kind |-> "error", val |-> r.val]
    /\ last' = last
    /\ HXframe

\* the residual vanishes at the point __f was last evaluated at
HX_converged(o) ==
    /\ o.xin = o.x
    /\ \A i \in 1..7 : o.y[i] <= 1000 /\ -(o.y[i]) <= 1000

\* the assignments of calc after a successful root, up to res['dt']
HeatExchanger_res(o, x) ==
    [o.design EXCEPT !.t_hot_in = x[1], !.t_hot_out = x[2],
                     !.t_cold_in = x[3], !.t_cold_out = x[4],
                     !.C_hot = x[5], !.C_cold = x[6], !.Q_cold = x[7],
                     !.Q_hot = (x[7] * 100) \div o.design.eff]

\* root returns sol and calc ends: with sol.success the result dict, its
\* dt from calc_dt called without hetype, else ValueError
calc_returns(success) ==
    /\ hx.solving /\ hx.evals > 0
    /\ success => HX_converged(hx)
    /\ IF success
       THEN LET r == HeatExchanger_res(hx, hx.x)
                dt == calc_dt(r.t_hot_in, r.t_hot_out, r.t_cold_in,
                              r.t_cold_out, "cf")
                res == [r EXCEPT !.dt = dt.val,
                                 !.kF = HeatExchanger_calc_kF(hx, hx.x[5], hx.x[6])]
            IN  IF dt.ok
                THEN /\ hx' = [hx EXCEPT !.solving = FALSE, !.res = res]
                     /\ ret' = [kind |-> "record", val |-> res]
                ELSE /\ hx' = [hx EXCEPT !.solving = FALSE, !.res = r]
                     /\ ret' = [kind |-> "error", val |-> dt.val]
       ELSE /\ hx' = [hx EXCEPT !.solving = FALSE]
            /\ ret' = [kind |-> "error", val |-> "ValueError"]
    /\ last' = last
    /\ HXframe

NextHX ==
    \/ \E des \in BOOLEAN : call_get_inp_params(des)
    \/ \E params \in HX_params(hx) : calc(params)
    \/ \E x \in HX_X(hx) : root_f(x)
    \/ \E success \in BOOLEAN : calc_returns(success)

SpecHX == InitHX /\ [][NextHX]_vars

-----------------------------------------------------------------------------
(***************************************************************************)
(* hydrcalc: the head losses of the elements of a pipeline.  An element is *)
(* a dict, here a function from its keys to their values.  Diameters D are *)
(* in mm, Delta in 1e-6 m, kvisc in 1e-6 m2/s, RD in 1e-1, a 'Kv' value in *)
(* m3/h, an 'lrc' value in 1e-3, head losses in 1e-6 m.  The tables hold   *)
(* what calc_dH (L = 1), elb_calc_dH, Kv_calc_dH and lrc_calc_dH evaluate  *)
(* to, or the exception they raise.                                        *)
(***************************************************************************)

\* How many elements a pipeline has at most
MaxElems == 3

dH_pipeTab ==
       <<50000, 100, 200, 1>> :> [ok |-> TRUE, val |-> 38933]
    @@ <<50000, 3000, 200, 1>> :> [ok |-> FALSE, val |-> "ValueError"]

dH_elbowTab ==
       <<50000, 100, 90, 15, 200, 1>> :> [ok |-> TRUE, val |-> 67189]
    @@ <<50000, 3000, 90, 15, 200, 1>> :> [ok |-> FALSE, val |-> "ValueError"]

dH_KvTab ==
       <<50000, 100, 50>> :> [ok |-> TRUE, val |-> 10197162]
    @@ <<50000, 3000, 50>> :> [ok |-> FALSE, val |-> "ValueError"]

dH_lrcTab ==
       <<50000, 100, 500>> :> [ok |-> TRUE, val |-> 79721]
    @@ <<50000, 3000, 500>> :> [ok |-> FALSE, val |-> "ValueError"]

ppln_types == {"pipe", "elbow", "Kv", "lrc"}

ppln_params ==
    [pipe |-> <<"D", "Delta", "kvisc", "qty">>,
     elbow |-> <<"D", "deg", "RD", "Delta", "kvisc", "qty">>,
     Kv |-> <<"D", "value", "qty">>,
     lrc |-> <<"D", "value", "qty">>]

\* ppln_get_defs(D) with the defaults of its other parameters
ppln_get_defs(D) ==
    [D |-> D, Delta |-> 200, kvisc |-> 1, deg |-> 90, RD |-> 15, qty |-> 1]

\* the inner loop: a parameter the element lacks is taken from kwargs,
\* KeyError if kwargs lacks it too
RECURSIVE ppln_defaults(_, _, _, _)
ppln_defaults(elem, param_keys, i, kwargs) ==
    IF i > Len(param_keys) THEN [ok |-> TRUE, elem |-> elem]
    ELSE LET param == param_keys[i]
         IN  IF param \in DOMAIN elem
             THEN ppln_defaults(elem, param_keys, i + 1, kwargs)
             ELSE IF param \notin DOMAIN kwargs
             THEN [ok |-> FALSE, elem |-> elem]
             ELSE ppln_defaults(elem @@ (param :> kwargs[param]),
                                param_keys, i + 1, kwargs)

\* the head loss of one element of its type
ppln_elem_dH(Q, elem) ==
    CASE elem.type = "pipe" ->
           dH_pipeTab[<<Q, elem.D, elem.Delta, elem.kvisc>>]
      [] elem.type = "elbow" ->
           dH_elbowTab[<<Q, elem.D, elem.deg, elem.RD, elem.Delta, elem.kvisc>>]
      [] elem.type = "Kv" -> dH_KvTab[<<Q, elem.D, elem.value>>]
      [] OTHER -> dH_lrcTab[<<Q, elem.D, elem.value>>]

\* fault injection: the head loss of one element, whatever its qty
ppln_dH_one(dH, qty) == dH

\* dH *= elem['qty']
ppln_dH_qty(dH, qty) == dH * qty

\* the loop of ppln_calc_dH from element i on: the exception or the list it
\* ends with, and the elements as the loop leaves them
RECURSIVE ppln_loop(_, _, _, _, _)
ppln_loop(Q, elems, i, dHs, kwargs) ==
    IF i > Len(elems) THEN [kind |-> "list", val |-> dHs, elems |-> elems]
    ELSE LET elem == elems[i]
         IN  IF "type" \notin DOMAIN elem
             THEN [kind |-> "error", val |-> "ValueError", elems |-> elems]
             ELSE IF elem.type \notin ppln_types
             THEN [kind |-> "error", val |-> "ValueError", elems |-> elems]
             ELSE LET f == ppln_defaults(elem, ppln_params[elem.type], 1, kwargs)
                      filled == [elems EXCEPT ![i] = f.elem]
                  IN  IF ~f.ok
                      THEN [kind |-> "error", val |-> "KeyError",
                            elems |-> filled]
                      ELSE LET dH == ppln_elem_dH(Q, f.elem)
                           IN  IF ~dH.ok
                               THEN [kind |-> "error", val |-> dH.val,
                                     elems |-> filled]
                               ELSE ppln_loop(Q, filled, i + 1,
                                      Append(dHs, ppln_dH_qty(dH.val, f.elem.qty)),
                                      kwargs)

\* The elements, flows and defaults the calls draw from
PplnElems ==
    { [type |-> "pipe", qty |-> 10],
      [type |-> "elbow"],
      [type |-> "Kv", value |-> 50, qty |-> 2],
      [type |-> "lrc", D |-> 100, value |-> 500, qty |-> 3],
      [D |-> 100, qty |-> 2],
      [type |-> "valve", D |-> 100],
      [type |-> "pipe", D |-> 3000] }

PplnLists == UNION {[1..n -> PplnElems] : n \in 0..MaxElems}

PplnKwargs == {ppln_get_defs(100), << >>}

\* a caller holding a flow, a list of elements and the defaults
InitPpln ==
    /\ self = "hydrcalc"
    /\ props = << >>
    /\ \E elems \in PplnLists, kwargs \in PplnKwargs :
          last = [op |-> "caller", a |-> 50000, b |-> elems, X |-> kwargs]
    /\ ret = [kind |-> "none", val |-> 0]
    /\ sub = "-"
    /\ collab = {}
    /\ pc = [t \in Threads |-> 0]
    /\ call = [t \in Threads |-> NoCall]
    /\ tret = [t \in Threads |-> << >>]
    /\ held = NoHold
    /\ frames = << >>
    /\ valve = << >>
    /\ hx = << >>

\* the caller's call ppln_calc_dH(Q, elems, **kwargs)
ppln_calc_dH(Q, elems, kwargs) ==
    /\ last.op = "caller"
    /\ last' = [op |-> "ppln_calc_dH", a |-> Q, b |-> elems, X |-> kwargs]
    /\ ret' = ppln_loop(Q, elems, 1, << >>, kwargs)
    /\ UNCHANGED <<self, props, sub, collab, concvars, objvars>>

NextPpln == ppln_calc_dH(last.a, last.b, last.X)

SpecPpln == InitPpln /\ [][NextPpln]_vars

-----------------------------------------------------------------------------
\* hydrcalc: the friction factor of a pipe, calc_lambda (the same code in
\* dzen/0023 and dzen/0026)
\* w in mm/s, D in mm, Delta in 1e-6 m, kvisc in 1e-6 m2/s, lambda in 1e-6

\* fRe_lowmarg_pipe(delta), rounded up; the smooth-pipe formula; the root
\* scipy's newton finds for the stabilised-flow equation; the quadratic law
Re_margTab ==
       <<0, 100>> :> 4000
    @@ <<0, 200>> :> 4000
    @@ <<100, 100>> :> 3241
    @@ <<100, 200>> :> 3387
    @@ <<200, 100>> :> 3102
    @@ <<200, 200>> :> 3241

lamb_smoothTab ==
       100000 :> 18461
    @@ 200000 :> 16016
    @@ 280000 :> 15000
    @@ 280100 :> 14999
    @@ 560000 :> 13191
    @@ 560200 :> 13190
    @@ 800000 :> 12385
    @@ 1120000 :> 11691
    @@ 1600000 :> 11017

lamb_stabTab ==
       <<100000, 100, 100>> :> 22175
    @@ <<100000, 200, 100>> :> 25107
    @@ <<200000, 100, 200>> :> 18820
    @@ <<200000, 200, 200>> :> 21034
    @@ <<280000, 100, 100>> :> 20667
    @@ <<280000, 200, 100>> :> 24066
    @@ <<280100, 100, 100>> :> 20666
    @@ <<280100, 200, 100>> :> 24066
    @@ <<560000, 100, 100>> :> 20174
    @@ <<560000, 100, 200>> :> 17569
    @@ <<560000, 200, 100>> :> 23750
    @@ <<560000, 200, 200>> :> 20174
    @@ <<560200, 100, 200>> :> 17568
    @@ <<560200, 200, 200>> :> 20174
    @@ <<800000, 100, 100>> :> 20018
    @@ <<800000, 200, 100>> :> 23653
    @@ <<1120000, 100, 200>> :> 17155
    @@ <<1120000, 200, 200>> :> 19911
    @@ <<1600000, 100, 200>> :> 17023
    @@ <<1600000, 200, 200>> :> 19830

lamb_quadrTab ==
       <<100, 100>> :> 19635
    @@ <<100, 200>> :> 16699
    @@ <<200, 100>> :> 23420
    @@ <<200, 200>> :> 19635

\* calc_Re
calc_Re(w, D, kvisc) == (w * D) \div kvisc

\* fRe_lowmarg_pipe for delta = Delta / D
fRe_lowmarg_pipe(Delta, D) == Re_margTab[<<Delta, D>>]

\* calc_lambda: the formula it takes and the value; Re < 560 / delta, with
\* delta = Delta / D, is Re * Delta < 560 * D in the units of the model
calc_lambda(w, D, Delta, kvisc, quadr) ==
    LET Re == calc_Re(w, D, kvisc)
    IN  IF Re < fRe_lowmarg_pipe(Delta, D)
        THEN [kind |-> "error", val |-> "ValueError", formula |-> "-"]
        ELSE IF Delta = 0
        THEN [kind |-> "lamb", val |-> lamb_smoothTab[Re], formula |-> "smooth"]
        ELSE IF ~quadr \/ Re * Delta < 560000 * D
        THEN [kind |-> "lamb", val |-> lamb_stabTab[<<Re, Delta, D>>], formula |-> "stabilised"]
        ELSE [kind |-> "lamb", val |-> lamb_quadrTab[<<Delta, D>>], formula |-> "quadratic"]

\* the arguments the calls are made with
Lam_w == {10, 1000, 2800, 2801, 5600, 8000}
Lam_D == {100, 200}
Lam_Delta == {0, 100, 200}

\* a caller holding the arguments of one call
InitLam ==
    /\ self = "hydrcalc"
    /\ props = << >>
    /\ \E w \in Lam_w, D \in Lam_D, Delta \in Lam_Delta, quadr \in BOOLEAN :
          last = [op |-> "caller", a |-> <<w, D, Delta, 1>>, b |-> quadr]
    /\ ret = [kind |-> "none", val |-> 0]
    /\ sub = "-"
    /\ collab = {}
    /\ pc = [t \in Threads |-> 0]
    /\ call = [t \in Threads |-> NoCall]
    /\ tret = [t \in Threads |-> << >>]
    /\ held = NoHold
    /\ frames = << >>
    /\ valve = << >>
    /\ hx = << >>

\* the caller's call calc_lambda(w, D, Delta, kvisc, quadr)
call_calc_lambda(w, D, Delta, kvisc, quadr) ==
    LET r == calc_lambda(w, D, Delta, kvisc, quadr)
    IN  /\ last.op = "caller"
        /\ last' = [op |-> "calc_lambda", a |-> <<w, D, Delta, kvisc>>, b |-> quadr]
        /\ ret' = [kind |-> r.kind, val |-> r.val]
        /\ sub' = r.formula
        /\ UNCHANGED <<self, props, collab, concvars, objvars>>

NextLam == call_calc_lambda(last.a[1], last.a[2], last.a[3], last.a[4], last.b)

SpecLam == InitLam /\ [][NextLam]_vars
-----------------------------------------------------------------------------
\* Claims

Has(d, k, v) == k \in DOMAIN d /\ d[k] = v

IsRecordCall == last.op \in {"props_Tp", "props_tp", "props_ph", "props_ps"}

IsBackwardCall == last.op \in {"props_ph", "props_ps"}

\* the pressure argument of the last call
LastP == IF last.op \in {"props_Tp", "props_tp"} THEN last.b ELSE last.a

\* the assignments the last call made
LastWrites ==
    CASE last.op = "props_Tp" -> Region_props_Tp(self, last.a, last.b)
      [] last.op = "props_tp" -> Region_props_tp(self, last.a, last.b)
      [] last.op = "props_ph" -> Region_props_ph(self, last.a, last.b)
      [] last.op = "props_ps" -> Region_props_ps(self, last.a, last.b)

\* the temperature the backward correlation gives the last call
LastBackwardT ==
    IF last.X = "h" THEN T_ph(self, last.a, last.b) ELSE T_ps(self, last.a, last.b)

\* what _pX_in answers for the pair on an instance of the class
Contains(slf, p, value, X) ==
    LET r == Region_pX_in(slf, << >>, p, value, X)
    IN  r.ok /\ r.val

\* value lies between property X at the lower and at the upper temperature edge
RangeHolds(slf, p, value, X) ==
    LET e == get_T_edges(slf, p)
    IN  /\ ForwardX(slf, e.lower, p, X) <= value
        /\ value <= ForwardX(slf, e.upper, p, X)

\* C1: whatever calls came before on the instance, every field of the record
\* a call returns holds what the call's own arguments determine: the value its
\* own evaluation gives the field, the pressure field the call's own p.
C1_OwnArguments ==
    IsRecordCall =>
        /\ ret.kind = "record"
        /\ LET own == Put(ApplyWrites(<< >>, LastWrites), "p", LastP)
           IN  \A f \in DOMAIN ret.val : ret.val[f] = own[f]

\* C2: a call that ran concurrently with another on the same instance returns
\* the record it returns when run alone: every field its own evaluation
\* assigns holds the value that evaluation gave it.
C2_AsAlone ==
    \A t \in Threads :
        returned(t) =>
            LET alone == ApplyWrites(<< >>, CallWrites(self, call[t]))
            IN  \A f \in DOMAIN alone : Has(tret[t], f, alone[f])

\* C3: every field of the record props_ph(p, h) returns is that of
\* props_Tp(T_ph(p, h), p), and every field of the record props_ps(p, s)
\* returns is that of props_Tp(T_ps(p, s), p).
C3_Delegates ==
    IsBackwardCall =>
        /\ ret.kind = "record"
        /\ LET fwd == Forward(self, LastBackwardT, last.a)
           IN  \A f \in DOMAIN ret.val : ret.val[f] = fwd[f]

\* C4 (as claimed): props_ph / props_ps called with a pair for which _pX_in is
\* false raises an error and returns no record.
C4_RaisesOutside ==
    (IsBackwardCall /\ ~Contains(self, last.a, last.b, last.X)) =>
        ret.kind = "error"

\* C4 (amended): props_ph / props_ps make no containment check.  Called with a
\* pair for which _pX_in is false (p inside the pressure range), they return a
\* record: T is the backward correlation's temperature for the pair, h (or s)
\* is the caller's value, and v, u, cv, cp, w, x and the other of h, s are the
\* forward evaluation at (T, p), outside the region.
C4_ReturnsExtrapolated ==
    (IsBackwardCall /\ ~Contains(self, last.a, last.b, last.X)) =>
        /\ ret.kind = "record"
        /\ Has(ret.val, "T", LastBackwardT)
        /\ Has(ret.val, last.X, last.b)
        /\ \A f \in Fields \ {"T", "p", last.X} :
               Has(ret.val, f, ForwardX(self, LastBackwardT, last.a, f))

C4_Witness ==
    /\ IsBackwardCall
    /\ ParamsIn_p_in(last.a)
    /\ ~Contains(self, last.a, last.b, last.X)
    /\ ret.kind = "record"

\* C5: every record a call returns holds all ten fields.
C5_Complete ==
    ret.kind = "record" => Fields \subseteq DOMAIN ret.val

\* C6 (as claimed): _pX_in(p, value, X) is true if and only if value lies in
\* [value_lower, value_upper], both ends included, and nothing else decides it
\* (stated where the temperature edges at p exist).
C6_RangeAlone ==
    (last.op = "_pX_in" /\ get_T_edges(self, last.a).ok) =>
        /\ ret.kind = "bool"
        /\ ret.val = RangeHolds(self, last.a, last.b, last.X)

\* C6 (amended): _pX_in(p, value, X) is true if and only if p passes p_in and
\* value lies in [value_lower, value_upper], both ends included; a pressure
\* that fails p_in gives false before any edge is computed.
C6_InRangeAndPIn ==
    last.op = "_pX_in" =>
        /\ ret.kind = "bool"
        /\ ret.val = (ParamsIn_p_in(last.a) /\ RangeHolds(self, last.a, last.b, last.X))
        /\ (~ParamsIn_p_in(last.a) => collab = {})

C6_Witness ==
    /\ last.op = "_pX_in"
    /\ ~ParamsIn_p_in(last.a)
    /\ get_T_edges(self, last.a).ok
    /\ RangeHolds(self, last.a, last.b, last.X)
    /\ ret.kind = "bool"
    /\ ret.val = FALSE

\* C7 (as claimed): Region1's edges at p are the global minimum temperature
\* and, above, the Boundary23 temperature at p when p exceeds the saturation
\* pressure at 623.15 K, the saturation temperature at p otherwise.
C7_Boundary23Upper ==
    (self = "Region1" /\ last.op = "_get_T_edges" /\ ret.kind = "edges") =>
        /\ ret.val[1] = T_min
        /\ ret.val[2] = IF last.a > sc_p_T(623150)
                        THEN bound23_T_p(last.a)
                        ELSE sc_T_p(last.a).T

\* C7 (amended): Region1's edges at p are the global minimum temperature and,
\* above, the constant 623.15 K when p exceeds the saturation pressure at
\* 623.15 K (no collaborator is called), the saturation temperature at p
\* otherwise (the saturation curve's range error is passed on).
C7_Region1Edges ==
    (self = "Region1" /\ last.op = "_get_T_edges") =>
        IF last.a > sc_p_T(623150)
        THEN /\ ret.kind = "edges"
             /\ ret.val = <<T_min, 623150>>
             /\ collab = {}
        ELSE /\ collab = {<<"sc.T_p", last.a>>}
             /\ IF sc_T_p(last.a).ok
                THEN ret.kind = "edges" /\ ret.val = <<T_min, sc_T_p(last.a).T>>
                ELSE ret.kind = "error"

C7_Witness ==
    /\ self = "Region1"
    /\ last.op = "_get_T_edges"
    /\ last.a > sc_p_T(623150)
    /\ ret.kind = "edges"
    /\ ret.val[2] = 623150
    /\ ret.val[2] # bound23_T_p(last.a)

\* C8: Region2's edges at p are the global maximum temperature above and,
\* below, the Boundary23 temperature at p when p is at or above the saturation
\* pressure at 623.15 K, the saturation temperature at p when p is below it.
C8_Region2Edges ==
    (self = "Region2" /\ last.op = "_get_T_edges") =>
        IF last.a >= sc_p_T(623150)
        THEN /\ ret.kind = "edges"
             /\ ret.val = <<bound23_T_p(last.a), T_max>>
             /\ collab = {<<"bound23.T_p", last.a>>}
        ELSE /\ collab = {<<"sc.T_p", last.a>>}
             /\ IF sc_T_p(last.a).ok
                THEN ret.kind = "edges" /\ ret.val = <<sc_T_p(last.a).T, T_max>>
                ELSE ret.kind = "error"

C8_Witness ==
    /\ self = "Region2"
    /\ last.op = "_get_T_edges"
    /\ last.a = sc_p_T(623150)
    /\ ret.kind = "edges"
    /\ collab = {<<"bound23.T_p", last.a>>}

\* the temperature the last T_ph / T_ps or props_ph / props_ps call worked with
LastT == IF last.op \in {"T_ph", "T_ps"} THEN ret.val ELSE ret.val["T"]

\* C9: Region2.T_ph(p, h) takes exactly one correlation: a when p <= 4 MPa;
\* otherwise b when p < p2b2c(h); otherwise c, p = p2b2c(h) included.
C9_T_ph_Subregion ==
    (self = "Region2" /\ last.op \in {"T_ph", "props_ph"}) =>
        LET p == last.a
            h == last.b
        IN  /\ p <= 4000000 => sub = "a" /\ LastT = Region2_T_ph2("a", p, h)
            /\ (p > 4000000 /\ p < Region2_p2b2c_h(h)) =>
                   sub = "b" /\ LastT = Region2_T_ph2("b", p, h)
            /\ (p > 4000000 /\ p >= Region2_p2b2c_h(h)) =>
                   sub = "c" /\ LastT = Region2_T_ph2("c", p, h)

C9_Witness ==
    /\ self = "Region2"
    /\ last.op = "T_ph"
    /\ last.a > 4000000
    /\ last.a = Region2_p2b2c_h(last.b)
    /\ sub = "c"
    /\ ret.val = Region2_T_ph2("c", last.a, last.b)

\* C10: Region2.T_ps(p, s) takes exactly one correlation: a when p <= 4 MPa,
\* whatever s is; otherwise b when s > 5850 J/kg/K; otherwise c, s = 5850
\* J/kg/K included.
C10_T_ps_Subregion ==
    (self = "Region2" /\ last.op \in {"T_ps", "props_ps"}) =>
        LET p == last.a
            s == last.b
        IN  /\ p <= 4000000 => sub = "a" /\ LastT = Region2_T_ps2("a", p, s)
            /\ (p > 4000000 /\ s > 5850000) =>
                   sub = "b" /\ LastT = Region2_T_ps2("b", p, s)
            /\ (p > 4000000 /\ s <= 5850000) =>
                   sub = "c" /\ LastT = Region2_T_ps2("c", p, s)

C10_Witness ==
    /\ self = "Region2"
    /\ last.op = "T_ps"
    /\ last.a > 4000000
    /\ last.b = 5850000
    /\ sub = "c"
    /\ ret.val = Region2_T_ps2("c", last.a, last.b)

\* T lies in the closed interval [273.15 K, 647.096 K]
InT(T) == QLe(<<273, 150000000>>, T) /\ QLe(T, <<647, 96000000>>)

\* p lies in the closed interval [611.212677 Pa, 22.064e6 Pa]
InP(p) == QLe(<<611, 212677000>>, p) /\ QLe(p, <<22064000, 0>>)

\* C11: p_T(T) raises the range error if and only if T is outside
\* [273.15 K, 647.096 K], both ends accepted, and returns the correlation's
\* pressure otherwise; p_t(t) does the same with t + 273.15.
C11_p_T_Range ==
    /\ last.op = "p_T" =>
           IF InT(last.a)
           THEN ret.kind = "value" /\ ret.val = psatTab[last.a]
           ELSE ret.kind = "error"
    /\ last.op = "p_t" =>
           LET T == QAdd(last.a, <<273, 150000000>>)
           IN  IF InT(T)
               THEN ret.kind = "value" /\ ret.val = psatTab[T]
               ELSE ret.kind = "error"

C11_Witness ==
    /\ last.op = "p_T"
    /\ last.a = <<647, 96000000>>
    /\ ret.kind = "value"

\* C12: T_p(p) raises the range error if and only if p is outside
\* [611.212677 Pa, 22.064e6 Pa], both ends accepted, and returns the
\* correlation's temperature otherwise.
C12_T_p_Range ==
    last.op = "T_p" =>
        IF InP(last.a)
        THEN ret.kind = "value" /\ ret.val = TsatTab[last.a]
        ELSE ret.kind = "error"

C12_Witness ==
    /\ last.op = "T_p"
    /\ last.a = <<611, 212677000>>
    /\ ret.kind = "value"

\* C13 (as claimed): p_T(700) raises the range error and T_p(1e5) raises the
\* range error.
C13_BothRaise ==
    /\ (last.op = "p_T" /\ last.a = <<700, 0>>) => ret.kind = "error"
    /\ (last.op = "T_p" /\ last.a = <<100000, 0>>) => ret.kind = "error"

\* C13 (amended): p_T(700) raises the range error; T_p(1e5) raises nothing,
\* 1e5 Pa being inside [611.212677 Pa, 22.064e6 Pa], and returns the
\* saturation temperature 372.7559186 K.
C13_Examples ==
    /\ (last.op = "p_T" /\ last.a = <<700, 0>>) => ret.kind = "error"
    /\ (last.op = "T_p" /\ last.a = <<100000, 0>>) =>
           ret.kind = "value" /\ ret.val = <<372, 755918611>>

C13_Witness ==
    /\ last.op = "T_p"
    /\ last.a = <<100000, 0>>
    /\ InP(last.a)
    /\ ret.kind = "value"

\* the tag each class stores: -1 (water) in Region1, 2 in Region2
PhaseTag(slf) == IF slf = "Region1" THEN -1 ELSE 2

\* C14: every record a region returns, through props_Tp, props_tp, props_ph or
\* props_ps, carries its own class's phase tag, and the two classes' tags
\* differ, so it never carries the other class's.
C14_PhaseTag ==
    /\ PhaseTag("Region1") # PhaseTag("Region2")
    /\ ret.kind = "record" =>
           /\ Has(ret.val, "x", PhaseTag(self))
           /\ \A other \in {"Region1", "Region2"} \ {self} :
                  ret.val["x"] # PhaseTag(other)

C14_Witness ==
    /\ self = "Region2"
    /\ last.op = "props_ps"
    /\ ret.kind = "record"
    /\ ret.val["x"] = 2

\* C15: props_tp(t, p) returns the record of props_Tp(t + 273.15, p), its
\* temperature field the Kelvin value t + 273.15.
C15_Celsius ==
    last.op = "props_tp" =>
        /\ ret.kind = "record"
        /\ ret.val = Forward(self, last.a + 273150, last.b)
        /\ ret.val["T"] = last.a + 273150

C15_Witness ==
    /\ last.op = "props_tp"
    /\ ret.kind = "record"
    /\ ret.val["T"] = last.a + 273150
    /\ ret.val["T"] # last.a

Abs(x) == IF x < 0 THEN -x ELSE x

IsRoundTrip == last.op \in {"T_ph(props_Tp)", "T_ps(props_Tp)"}

\* C16 (as claimed): in Region1, for T in (273.15, 623.15) and (T, p) in the
\* region, T_ph(p, props_Tp(T, p)['h']) and T_ps(p, props_Tp(T, p)['s']) equal
\* T within 1e-6 relative (the tables round to 1 mK, which is allowed for on
\* top of the tolerance).
C16_RoundTrip1e6 ==
    (self = "Region1" /\ IsRoundTrip /\ 273150 < last.a /\ last.a < 623150) =>
        /\ ret.kind = "T"
        /\ Abs(ret.val - last.a) * 1000000 <= last.a + 1000000

\* C16 (amended): in Region1, for T in (273.15, 623.15) and (T, p) in the
\* region, T_ph(p, props_Tp(T, p)['h']) and T_ps(p, props_Tp(T, p)['s']) equal
\* T within 25 mK, the accuracy of the backward correlations; they do not
\* meet 1e-6 relative.
C16_RoundTrip25mK ==
    (self = "Region1" /\ IsRoundTrip /\ 273150 < last.a /\ last.a < 623150) =>
        /\ ret.kind = "T"
        /\ Abs(ret.val - last.a) <= 25

C16_Witness ==
    /\ self = "Region1"
    /\ last.op = "T_ph(props_Tp)"
    /\ InRegion(self, last.a, last.b)
    /\ ret.kind = "T"
    /\ Abs(ret.val - last.a) * 1000000 > last.a + 1000000
    /\ Abs(ret.val - last.a) <= 25

\* C17 (as claimed): in Region2, for (T, p) in the region, T_ph(p,
\* props_Tp(T, p)['h']) and T_ps(p, props_Tp(T, p)['s']) equal T within the
\* 1e-6 relative of the round-trip law, in each subregion (the tables round to
\* 1 mK, which is allowed for on top of the tolerance).
C17_RoundTrip1e6 ==
    (self = "Region2" /\ IsRoundTrip) =>
        /\ ret.kind = "T"
        /\ sub \in {"a", "b", "c"}
        /\ Abs(ret.val - last.a) * 1000000 <= last.a + 1000000

\* C17 (amended): in Region2, for (T, p) in the region, T_ph(p,
\* props_Tp(T, p)['h']) and T_ps(p, props_Tp(T, p)['s']) equal T within 25 mK,
\* the accuracy of the backward correlations, whichever of the subregions a,
\* b, c the pair selects; they do not meet 1e-6 relative.
C17_RoundTrip25mK ==
    (self = "Region2" /\ IsRoundTrip) =>
        /\ ret.kind = "T"
        /\ sub \in {"a", "b", "c"}
        /\ Abs(ret.val - last.a) <= 25

C17_Witness ==
    /\ self = "Region2"
    /\ last.op = "T_ps(props_Tp)"
    /\ InRegion(self, last.a, last.b)
    /\ sub = "c"
    /\ ret.kind = "T"
    /\ Abs(ret.val - last.a) * 1000000 > last.a + 1000000
    /\ Abs(ret.val - last.a) <= 25

\* C18: p_T(273.15) is about 611.2 Pa and p_T(647.096) about 22.064e6 Pa
\* (within 0.1 Pa and 1 Pa), and at both ends T_p(p_T(T)) raises nothing and
\* returns T.
C18_EndsInverse ==
    /\ (last.op = "p_T" /\ last.a = <<273, 150000000>>) =>
           ret.kind = "value" /\ ret.val[1] = 611
           /\ 100000000 <= ret.val[2] /\ ret.val[2] <= 300000000
    /\ (last.op = "p_T" /\ last.a = <<647, 96000000>>) =>
           ret.kind = "value" /\ ret.val[1] \in {22063999, 22064000}
    /\ (last.op = "T_p(p_T)" /\ last.a \in {<<273, 150000000>>, <<647, 96000000>>}) =>
           ret.kind = "value" /\ ret.val = last.a


-----------------------------------------------------------------------------
\* C19: a call elb_calc_grc(Q, D, deg) that has ended with inputs inside the
\* validity range (0 < D <= 2 m, and elb_calc_grc_w accepts the velocity)
\* has returned the value elb_calc_grc_w(calc_w(Q, D), D, deg).
ElbEnded == last.op = "elb_calc_grc" /\ frames = << >>

ElbValid ==
    LET w == calc_w(last.a, last.b[1])
    IN  w.ok /\ elb_calc_grc_w(w.val, last.b[1], last.b[2]).ok

C19_Returns ==
    (ElbEnded /\ ElbValid) =>
        /\ ret.kind = "value"
        /\ ret.val = elb_calc_grc_w(calc_w(last.a, last.b[1]).val,
                                    last.b[1], last.b[2]).val

-----------------------------------------------------------------------------
\* C20: for every type and F0, a capacity Kv with Kv0 <= Kv <= Kvs gives a
\* stem position h_from_Kv(Kv) in [0, 1] that set_h accepts and at which
\* get_Kv() is Kv again, and h_from_Kv of the flow characteristic at h is h.
C20_Inverse ==
    /\ (/\ last.op = "get_Kv(set_h(h_from_Kv))"
        /\ valve.Kv0 <= last.a /\ last.a <= valve.Kvs) =>
           /\ ret.kind = "value"
           /\ ret.val = last.a
           /\ 0 <= valve.h /\ valve.h <= 10000
    /\ last.op = "h_from_Kv(flow_char)" =>
           /\ ret.kind = "value"
           /\ ret.val = last.a

-----------------------------------------------------------------------------
\* C21: after a successful calc, res['dt'] is the mean temperature difference
\* of the result temperatures for the exchanger's own flow type hetype.
C21_OwnFlowType ==
    (last.op = "calc" /\ ret.kind = "record") =>
        ret.val.dt = calc_dt(ret.val.t_hot_in, ret.val.t_hot_out,
                             ret.val.t_cold_in, ret.val.t_cold_out,
                             hx.hetype).val

\* the index of the unknown named key
HX_index(key) == CHOOSE i \in 1..7 : HX_KEYS[i] = key

\* C27: during the solve of calc(params), each quantity named by an entry of
\* params that is not None is held at that entry's value, whatever order
\* the keys of params have.
C27_HeldByName ==
    (last.op = "calc" /\ hx.evals > 0) =>
        \A i \in 1..Len(hx.params) :
            hx.params[i].given =>
                hx.x[HX_index(hx.params[i].key)] = hx.params[i].val

-----------------------------------------------------------------------------
\* C22: on every exit from get_char, by return or by exception, the stem
\* position h, the capacity Kv and the resistance R are as they were at entry.
C22_StateRestored ==
    last.op = "get_char" =>
        /\ valve.h = last.b.h
        /\ valve.Kv = last.b.Kv
        /\ valve.R = last.b.R

\* the arguments of the last get_char are within Q > 0, 0 < m <= 1,
\* 0 < h <= 1, n >= 2
GetCharValid ==
    /\ last.op = "get_char"
    /\ last.a[1] > 0
    /\ 0 < last.a[2] /\ last.a[2] <= 10000
    /\ 0 < last.a[3] /\ last.a[3] <= 10000
    /\ last.a[4] >= 2

-----------------------------------------------------------------------------
\* an element without a 'type' key or with a type outside types
PplnBad(elem) == "type" \notin DOMAIN elem \/ elem.type \notin ppln_types

\* the element with the defaults of kwargs for the parameters it lacks
PplnFilled(elem, kwargs) ==
    ppln_defaults(elem, ppln_params[elem.type], 1, kwargs).elem

\* the first i - 1 elements of the last call have a type of types, their
\* parameters and a head loss
PplnFineBefore(i) ==
    \A j \in 1..(i - 1) :
        /\ ~PplnBad(last.b[j])
        /\ ppln_defaults(last.b[j], ppln_params[last.b[j].type], 1, last.X).ok
        /\ ppln_elem_dH(last.a, PplnFilled(last.b[j], last.X)).ok

\* C23: ppln_calc_dH returns one head loss per element of elems, in their
\* order, each multiplied by the element's qty, and it raises ValueError,
\* the loop going no further, at the first element without a 'type' key or
\* with a type outside types.
C23_OnePerElement ==
    last.op = "ppln_calc_dH" =>
        /\ PplnFineBefore(Len(last.b) + 1) <=> ret.kind = "list"
        /\ ret.kind = "list" =>
              /\ Len(ret.val) = Len(last.b)
              /\ \A i \in 1..Len(last.b) :
                    LET e == PplnFilled(last.b[i], last.X)
                    IN  ret.val[i] = ppln_elem_dH(last.a, e).val * e.qty
        /\ \A i \in 1..Len(last.b) :
              (PplnBad(last.b[i]) /\ PplnFineBefore(i)) =>
                  /\ ret.kind = "error" /\ ret.val = "ValueError"
                  /\ \A j \in i..Len(last.b) : ret.elems[j] = last.b[j]

C23_Witness ==
    /\ last.op = "ppln_calc_dH"
    /\ Len(last.b) = 3
    /\ ret.kind = "list"
    /\ ret.val = <<389330, 67189, 20394324>>

-----------------------------------------------------------------------------
\* C24: in every execution of the region code, Boundary23.T_p is invoked only
\* with a pressure strictly above the saturation pressure at 623.15 K, never at
\* or below it.
C24_StrictlyAbove ==
    \A c \in collab : c[1] = "bound23.T_p" => c[2] > sc_p_T(623150)

\* C24 (amended): Boundary23.T_p is invoked only with a pressure at or above the
\* saturation pressure at 623.15 K, never below it; Region1 never invokes it.
C24_AtOrAbove ==
    /\ \A c \in collab : c[1] = "bound23.T_p" => c[2] >= sc_p_T(623150)
    /\ self = "Region1" => \A c \in collab : c[1] # "bound23.T_p"

C24_Witness ==
    /\ self = "Region2"
    /\ last.op = "_pX_in"
    /\ <<"bound23.T_p", sc_p_T(623150)>> \in collab

-----------------------------------------------------------------------------
\* the Reynolds number of the last calc_lambda call
LamRe == calc_Re(last.a[1], last.a[2], last.a[4])

\* the formula the documentation of calc_lambda names for the last call
LamDocumented ==
    IF last.a[3] = 0 THEN "smooth"
    ELSE IF ~last.b THEN "stabilised"
    ELSE IF LamRe * last.a[3] > 560000 * last.a[2] THEN "quadratic"
    ELSE "stabilised"

\* C25: calc_lambda takes the smooth-pipe formula for delta = 0; for a rough
\* pipe with quadr=False the stabilised-flow formula at every Re; for a rough
\* pipe with quadr=True the quadratic-law formula exactly when Re > 560/delta
\* and the stabilised-flow formula otherwise.
C25_FormulaAsDocumented ==
    (last.op = "calc_lambda" /\ ret.kind = "lamb") =>
        /\ sub = LamDocumented
        /\ ret.val = CASE LamDocumented = "smooth" -> lamb_smoothTab[LamRe]
                       [] LamDocumented = "stabilised" ->
                            lamb_stabTab[<<LamRe, last.a[3], last.a[2]>>]
                       [] OTHER -> lamb_quadrTab[<<last.a[3], last.a[2]>>]

-----------------------------------------------------------------------------
\* what the caller reads in the record it kept: the dict the record is
HeldNow == IF held.obj = "self.props" THEN props ELSE held.val

HeldKept == held.obj \in {"copy", "self.props"}

\* C28: a record returned by props_Tp, props_tp, props_ph or props_ps is an
\* independent copy: no later call on the same instance (forward, backward or
\* containment check) changes any field of a record returned earlier.
C28_IndependentCopy == HeldKept => HeldNow = held.val

\* a containment check after the record was kept left other values in self.props
C28_Witness ==
    /\ HeldKept
    /\ last.op = "_pX_in"
    /\ props # held.val
    /\ \E k \in DOMAIN held.val : props[k] # held.val[k]
====
